---- MODULE Spec2Model ----
(***************************************************************************)
(* Model of the HeapStats snapshot counting core: TSnapShotContainer       *)
(* (snapShotContainer.hpp / snapShotContainer.cpp) with its instance stock *)
(* queue, class counters and child class counter lists, and the class map  *)
(* of TClassContainer (classContainer.hpp).                                *)
(*                                                                         *)
(* Heap objects are modelled as entries of sequences ("heaps"); a pointer  *)
(* is the index of the entry and NULL is 0.  Each thread has a program     *)
(* counter pc[t], the locals of the call it is executing (local[t]), the   *)
(* containers it got from getInstance and has not yet released (held[t])   *)
(* and the result of its last completed call (ret[t]).                     *)
(***************************************************************************)
EXTENDS Integers, Sequences, FiniteSets, TLC

NULL == 0

\* const static unsigned int MAX_STOCK_COUNT = 2;
MAX_STOCK_COUNT == 2

(***************************************************************************)
(* Bounds of the model.                                                    *)
(***************************************************************************)
NumThreads == 2
MaxContainers == 4
MaxOps == 9
NumClasses == 3
MaxClsCounters == 2
MaxChildCounters == 3
MaxCount == 1
MaxCalls == 2
FillChildren == 2
FillClasses == 2
FillContainers == 2
MaxCauseLen == 121
MaxCallCount == 5
MaxFinalize == 2
NumReleasers == 3

Threads == 1..NumThreads

VARIABLES
  stockQueue,    \* TSnapShotContainer::stockQueue, the queued instances in order
  stockQueueIsNull,  \* the static pointer stockQueue is NULL: no queue exists
  container,     \* heap of TSnapShotContainer: [isCleared, counterMap]
  header,        \* TSnapShotContainer::_header of each instance
  deleted,       \* the TSnapShotContainer instances that were deleted
  clsCounter,    \* heap of TClassCounter
  childCounter,  \* heap of TChildClassCounter
  freed,         \* the counters that were freed: <<"cls", i>>, <<"child", k>>
  objData,       \* heap of TObjectData
  classMap,      \* TClassContainer::classMap: klassOop -> TObjectData*
  pc,            \* the statement each thread is at
  local,         \* the locals of the call each thread is executing
  held,          \* the containers each thread (client) holds
  ret,           \* the last completed call of each thread and its result
  opSum,         \* history: the operands of the Inc/addInc calls made so far
  results,       \* history: the non-null results of findClass/pushNewClass
  hist           \* history: the getInstance/releaseInstance calls in order

poolVars == <<stockQueue, stockQueueIsNull, deleted>>
heapVars == <<container, clsCounter, childCounter, freed>>
hdrVars == <<header>>
regVars == <<objData, classMap>>
threadVars == <<pc, local, held, ret>>
histVars == <<opSum, results, hist>>
vars == <<poolVars, heapVars, hdrVars, regVars, threadVars, histVars>>

NoLocal == [op |-> "none"]
NoRet == [op |-> "none", result |-> NULL]

ZeroCounter == [count |-> 0, total_size |-> 0]

EmptyMap == [k \in {} |-> NULL]

\* m[k] = v, the key inserted when absent
MapPut(m, k, v) == [x \in DOMAIN m \cup {k} |-> IF x = k THEN v ELSE m[x]]

(***************************************************************************)
(* Child class counter lists.                                              *)
(***************************************************************************)
RECURSIVE Walk(_, _, _)
\* The nodes met by following "next" from node, at most fuel of them.
Walk(cc, node, fuel) ==
  IF node = NULL \/ fuel = 0
  THEN <<>>
  ELSE <<node>> \o Walk(cc, cc[node].next, fuel - 1)

\* The nodes of the list that starts at head, in order.  A list with a cycle
\* gives a sequence longer than the heap.
ChildList(cc, head) == Walk(cc, head, Len(cc) + 1)

Range(s) == {s[i] : i \in DOMAIN s}

(***************************************************************************)
(* TSnapShotFileHeader.  The struct is packed (#pragma pack(push, 1)), so   *)
(* gcCause[80] is followed at once by the eight jlong fields FGCCount ..   *)
(* metaspaceCapacity.  mem holds these bytes in order, which is where a    *)
(* copy that runs past gcCause lands.  The fields before gcCause are       *)
(* fields of the record.                                                   *)
(***************************************************************************)
\* char gcCause[80]
GC_CAUSE_SIZE == 80

\* sizeof(jlong)
JLONG_SIZE == 8

\* Magic numbers of the snapshot format.
EXTENDED_SNAPSHOT == 128
EXTENDED_REFTREE_SNAPSHOT == 129

\* conf->CollectRefTree()->get(), fixed for a run of the agent
CollectRefTree == FALSE

\* The content of memory that no statement has written yet; a read of it can
\* give any value.
Indeterminate == -1

\* The jlong fields that follow gcCause, in declaration order.
TailFields ==
  <<"FGCCount", "YGCCount", "gcWorktime", "newAreaSize", "oldAreaSize",
    "totalHeapSize", "metaspaceUsage", "metaspaceCapacity">>

\* The number of bytes from gcCause to the end of the header.
HeaderTailSize == GC_CAUSE_SIZE + Len(TailFields) * JLONG_SIZE

\* The number of bytes of mem before field name.
FieldBase(name) ==
  LET k == CHOOSE j \in DOMAIN TailFields : TailFields[j] = name
  IN GC_CAUSE_SIZE + (k - 1) * JLONG_SIZE

\* The bytes of the jlong v, 0 <= v < 2^31, least significant byte first
\* (the byte order of the host).
Jlong(v) ==
  [b \in 1..JLONG_SIZE |-> IF b <= 4 THEN (v \div 256 ^ (b - 1)) % 256 ELSE 0]

\* this->_header.<name> = v
StoreJlongBug(mem, name, v) == mem
StoreJlong(mem, name, v) ==
  LET base == FieldBase(name)
      bytes == Jlong(v)
  IN [i \in DOMAIN mem |->
        IF base < i /\ i <= base + JLONG_SIZE THEN bytes[i - base] ELSE mem[i]]

\* The bytes of this->_header.<name>
LoadJlong(mem, name) ==
  [b \in 1..JLONG_SIZE |-> mem[FieldBase(name) + b]]

\* The gcCause buffer
GcCause(mem) == [i \in 1..GC_CAUSE_SIZE |-> mem[i]]

\* strcpy(gcCause, src): the characters of src and a terminating NUL are
\* written from the start of gcCause on, however long src is
strcpy(mem, src) ==
  [i \in DOMAIN mem |->
     IF i <= Len(src) THEN src[i] ELSE IF i = Len(src) + 1 THEN 0 ELSE mem[i]]

\* strlen(gcCause): the number of bytes before the first NUL (there is one
\* in mem: the strings copied are shorter than mem)
strlen(mem) ==
  LET nuls == {i \in DOMAIN mem : mem[i] = 0}
  IN (CHOOSE i \in nuls : \A j \in nuls : i <= j) - 1

\* The header as the constructor leaves it: magicNumber, byteOrderMark,
\* snapShotTime and size are set and gcCause is zeroed (memset); cause,
\* gcCauseLen and the jlong fields after gcCause are not written.
NewHeader ==
  [magicNumber |-> IF CollectRefTree THEN EXTENDED_REFTREE_SNAPSHOT
                   ELSE EXTENDED_SNAPSHOT,
   byteOrderMark |-> "BOM",
   snapShotTime |-> 0,
   size |-> 0,
   cause |-> "indeterminate",
   gcCauseLen |-> Indeterminate,
   mem |-> [i \in 1..HeaderTailSize |->
              IF i <= GC_CAUSE_SIZE THEN 0 ELSE Indeterminate]]

(***************************************************************************)
(* TSnapShotContainer: construction, clear, destruction.                   *)
(***************************************************************************)
\* TSnapShotContainer::TSnapShotContainer
NewContainer == [isCleared |-> TRUE, counterMap |-> EmptyMap]

\* The class counters the counter map of container c maps to (NULL skipped).
MappedCounters(c) ==
  {container[c].counterMap[k] : k \in DOMAIN container[c].counterMap} \ {NULL}

\* TSnapShotContainer::clearObjectCounter
clearObjectCounter(counter) == [counter EXCEPT !.count = 0, !.total_size = 0]

\* The loop of clearChildClassCounters on one child node.
ClearedChildBug(node) == node
ClearedChild(node) == [node EXCEPT !.counter = clearObjectCounter(@)]

\* The body of the loop of clear on one TClassCounter: offsets freed and reset,
\* then clearChildClassCounters resets the counter of the class itself.
ClearedClassBug(cls) ==
  [cls EXCEPT !.offsets = NULL, !.offsetCount = -1, !.child = NULL,
              !.counter = clearObjectCounter(@)]
ClearedClass(cls) ==
  [cls EXCEPT !.offsets = NULL, !.offsetCount = -1,
              !.counter = clearObjectCounter(@)]

\* The child list of class counter i, in order.
Children(i) == ChildList(childCounter, clsCounter[i].child)

\* The child nodes reachable from the class counters in S.
ChildrenOf(S) == UNION {Range(Children(i)) : i \in S}

\* if (!isForce && this->isCleared) return;
AlreadyClearedBug(cont, isForce) == FALSE
AlreadyCleared(cont, isForce) == ~isForce /\ cont.isCleared

\* TSnapShotContainer::clear
clear(c, isForce) ==
  IF AlreadyCleared(container[c], isForce)
  THEN UNCHANGED <<container, clsCounter, childCounter>>
  ELSE /\ clsCounter' =
            [i \in DOMAIN clsCounter |->
               IF i \in MappedCounters(c)
               THEN ClearedClass(clsCounter[i]) ELSE clsCounter[i]]
       /\ childCounter' =
            [k \in DOMAIN childCounter |->
               IF k \in ChildrenOf(MappedCounters(c))
               THEN ClearedChild(childCounter[k]) ELSE childCounter[k]]
       /\ container' = [container EXCEPT ![c].isCleared = TRUE]

\* TSnapShotContainer::~TSnapShotContainer: what the destructor frees.
Destroyed(c) ==
  {<<"cls", i>> : i \in MappedCounters(c)}
    \cup {<<"child", k>> : k \in ChildrenOf(MappedCounters(c))}

(***************************************************************************)
(* The instance stock: getInstance and releaseInstance.                    *)
(***************************************************************************)
Return(t, op, result) ==
  /\ pc' = [pc EXCEPT ![t] = "idle"]
  /\ local' = [local EXCEPT ![t] = NoLocal]
  /\ ret' = [ret EXCEPT ![t] = [op |-> op, result |-> result]]

\* stockQueue->try_pop(result): the queue after a successful pop
PoppedBug(q) == q
Popped(q) == Tail(q)

\* TSnapShotContainer::getInstance; allocOk: operator new does not throw
getInstance(t, allocOk) ==
  /\ pc[t] = "idle"
  /\ IF stockQueue # <<>>
     THEN /\ stockQueue' = Popped(stockQueue)      \* try_pop took an instance
          /\ held' = [held EXCEPT ![t] = @ \cup {Head(stockQueue)}]
          /\ Return(t, "getInstance", Head(stockQueue))
          /\ UNCHANGED <<container, header>>
     ELSE /\ IF allocOk                 \* result == NULL: create a new instance
             THEN /\ Len(container) < MaxContainers
                  /\ container' = Append(container, NewContainer)
                  /\ header' = Append(header, NewHeader)
                  /\ held' = [held EXCEPT ![t] = @ \cup {Len(container) + 1}]
                  /\ Return(t, "getInstance", Len(container) + 1)
             ELSE /\ Return(t, "getInstance", NULL)   \* catch (...)
                  /\ UNCHANGED <<container, header, held>>
          /\ UNCHANGED stockQueue
  /\ UNCHANGED <<stockQueueIsNull, deleted, clsCounter, childCounter, freed,
                 regVars>>

\* bool existStockSpace = (stockQueue->size() < MAX_STOCK_COUNT)
ExistStockSpaceBug(q) == Len(q) <= MAX_STOCK_COUNT
ExistStockSpace(q) == Len(q) < MAX_STOCK_COUNT

\* TSnapShotContainer::releaseInstance, up to the poll of the queue size
releaseInstance(t, instance) ==
  /\ pc[t] = "idle"
  /\ instance \in held[t] \cup {NULL}
  /\ IF instance = NULL
     THEN Return(t, "releaseInstance", NULL)
     ELSE /\ pc' = [pc EXCEPT ![t] =
                      IF ExistStockSpace(stockQueue)
                      THEN "release_store" ELSE "release_delete"]
          /\ local' = [local EXCEPT ![t] =
                         [op |-> "releaseInstance", instance |-> instance]]
          /\ UNCHANGED ret
  /\ UNCHANGED <<poolVars, heapVars, regVars, hdrVars, held>>

\* releaseInstance: existStockSpace was true; instance->clear(false) and
\* stockQueue->push(instance); pushOk: push does not throw
releaseStore(t, pushOk) ==
  /\ pc[t] = "release_store"
  /\ clear(local[t].instance, FALSE)
  /\ IF pushOk
     THEN /\ stockQueue' = Append(stockQueue, local[t].instance)
          /\ held' = [held EXCEPT ![t] = @ \ {local[t].instance}]
          /\ Return(t, "releaseInstance", NULL)
     ELSE /\ pc' = [pc EXCEPT ![t] = "release_delete"]   \* catch (...)
          /\ UNCHANGED <<stockQueue, held, local, ret>>
  /\ UNCHANGED <<stockQueueIsNull, deleted, freed, regVars, hdrVars>>

\* releaseInstance: !existStockSpace, delete instance
releaseDelete(t) ==
  /\ pc[t] = "release_delete"
  /\ deleted' = deleted \cup {local[t].instance}
  /\ freed' = freed \cup Destroyed(local[t].instance)
  /\ held' = [held EXCEPT ![t] = @ \ {local[t].instance}]
  /\ Return(t, "releaseInstance", NULL)
  /\ UNCHANGED <<stockQueue, stockQueueIsNull, container, clsCounter,
                 childCounter, regVars, hdrVars>>

(***************************************************************************)
(* Calls on a container in use.  A container is in use while a client      *)
(* holds it; the walker threads of the client all work on it.              *)
(***************************************************************************)
InUse(c) == \E u \in Threads : c \in held[u]

\* The counters of container c: its mapped class counters and their children.
CounterRefs(c) ==
  {<<"cls", i>> : i \in MappedCounters(c)}
    \cup {<<"child", k>> : k \in ChildrenOf(MappedCounters(c))}

CounterOf(ref) ==
  IF ref[1] = "cls" THEN clsCounter[ref[2]].counter
  ELSE childCounter[ref[2]].counter

\* Store value v in the counter that ref points to.
StoreCounter(ref, v) ==
  IF ref[1] = "cls"
  THEN /\ clsCounter' = [clsCounter EXCEPT ![ref[2]].counter = v]
       /\ UNCHANGED childCounter
  ELSE /\ childCounter' = [childCounter EXCEPT ![ref[2]].counter = v]
       /\ UNCHANGED clsCounter

\* TSnapShotContainer::findClass
findClass(t, c, od) ==
  /\ pc[t] = "idle"
  /\ InUse(c)
  /\ Return(t, "findClass",
            IF od \in DOMAIN container[c].counterMap
            THEN container[c].counterMap[od] ELSE NULL)
  /\ UNCHANGED <<poolVars, heapVars, regVars, hdrVars, held>>

\* counterMap[objData] = cur: the entry of objData is set to cur, whatever it
\* held before.
StoreMapped(m, od, cur) == MapPut(m, od, cur)

\* TSnapShotContainer::pushNewClass: calloc, posix_memalign, clearObjectCounter;
\* allocOk: both allocations succeed
pushNewClass(t, c, od, allocOk) ==
  /\ pc[t] = "idle"
  /\ InUse(c)
  /\ od \in DOMAIN objData
  /\ IF allocOk
     THEN /\ Len(clsCounter) < MaxClsCounters
          /\ clsCounter' =
               Append(clsCounter,
                      [counter |-> clearObjectCounter(ZeroCounter),
                       child |-> NULL, spinlock |-> 0,
                       offsets |-> NULL, offsetCount |-> -1])
          /\ pc' = [pc EXCEPT ![t] = "pushNewClass_insert"]
          /\ local' = [local EXCEPT ![t] =
                         [op |-> "pushNewClass", c |-> c, objData |-> od,
                          cur |-> Len(clsCounter) + 1]]
          /\ UNCHANGED ret
     ELSE /\ Return(t, "pushNewClass", NULL)   \* return NULL, cur freed
          /\ UNCHANGED clsCounter
  /\ UNCHANGED <<poolVars, container, childCounter, freed, regVars, hdrVars, held>>

\* The counter map after operator[] threw while it inserted objData: the key
\* is not in the map.
InsertFailedBug(m, od) == MapPut(m, od, NULL)
InsertFailed(m, od) == m

\* pushNewClass: counterMap[objData], which inserts the key when it is absent;
\* insertOk: the insertion does not throw
pushNewClassInsert(t, insertOk) ==
  /\ pc[t] = "pushNewClass_insert"
  /\ LET c == local[t].c
         od == local[t].objData
     IN IF od \in DOMAIN container[c].counterMap
        THEN /\ insertOk
             /\ pc' = [pc EXCEPT ![t] = "pushNewClass_store"]
             /\ UNCHANGED <<container, freed, local, ret>>
        ELSE IF insertOk
             THEN /\ container' =
                       [container EXCEPT ![c].counterMap = MapPut(@, od, NULL)]
                  /\ pc' = [pc EXCEPT ![t] = "pushNewClass_store"]
                  /\ UNCHANGED <<freed, local, ret>>
             ELSE /\ freed' = freed \cup {<<"cls", local[t].cur>>}   \* catch (...)
                  /\ Return(t, "pushNewClass", NULL)
                  /\ container' =
                       [container EXCEPT ![c].counterMap = InsertFailed(@, od)]
  /\ UNCHANGED <<poolVars, clsCounter, childCounter, regVars, hdrVars, held>>

\* pushNewClass: ... = cur; return cur
pushNewClassStore(t) ==
  /\ pc[t] = "pushNewClass_store"
  /\ container' =
       [container EXCEPT ![local[t].c].counterMap =
          StoreMapped(@, local[t].objData, local[t].cur)]
  /\ Return(t, "pushNewClass", local[t].cur)
  /\ UNCHANGED <<poolVars, clsCounter, childCounter, freed, regVars, hdrVars, held>>

\* TSnapShotContainer::Inc: count and total_size are added to atomically
Inc(t, c, ref, size) ==
  /\ pc[t] = "idle"
  /\ InUse(c)
  /\ ref \in CounterRefs(c)
  /\ CounterOf(ref).count < MaxCount
  /\ StoreCounter(ref, [count |-> CounterOf(ref).count + 1,
                        total_size |-> CounterOf(ref).total_size + size])
  /\ Return(t, "Inc", NULL)
  /\ UNCHANGED <<poolVars, container, freed, regVars, hdrVars, held>>

\* TSnapShotContainer::addInc: counter->count += operand->count, the load
addInc(t, c, ref, operand) ==
  /\ pc[t] = "idle"
  /\ InUse(c)
  /\ ref \in CounterRefs(c)
  /\ CounterOf(ref).count < MaxCount
  /\ pc' = [pc EXCEPT ![t] = "addInc_store_count"]
  /\ local' = [local EXCEPT ![t] =
                 [op |-> "addInc", counter |-> ref, operand |-> operand,
                  loaded |-> CounterOf(ref).count]]
  /\ UNCHANGED <<poolVars, heapVars, regVars, hdrVars, held, ret>>

\* The value a += stores: what was loaded plus the operand.
Added(loaded, operand) == loaded + operand

\* addInc: counter->count += operand->count, the store
addIncStoreCount(t) ==
  /\ pc[t] = "addInc_store_count"
  /\ StoreCounter(local[t].counter,
                  [CounterOf(local[t].counter) EXCEPT
                     !.count = Added(local[t].loaded, local[t].operand.count)])
  /\ pc' = [pc EXCEPT ![t] = "addInc_load_size"]
  /\ UNCHANGED <<poolVars, container, freed, regVars, hdrVars, held, local, ret>>

\* addInc: counter->total_size += operand->total_size, the load
addIncLoadSize(t) ==
  /\ pc[t] = "addInc_load_size"
  /\ local' = [local EXCEPT ![t].loaded = CounterOf(local[t].counter).total_size]
  /\ pc' = [pc EXCEPT ![t] = "addInc_store_size"]
  /\ UNCHANGED <<poolVars, heapVars, regVars, hdrVars, held, ret>>

\* addInc: counter->total_size += operand->total_size, the store
addIncStoreSize(t) ==
  /\ pc[t] = "addInc_store_size"
  /\ StoreCounter(local[t].counter,
                  [CounterOf(local[t].counter) EXCEPT
                     !.total_size =
                       Added(local[t].loaded, local[t].operand.total_size)])
  /\ Return(t, "addInc", NULL)
  /\ UNCHANGED <<poolVars, container, freed, regVars, hdrVars, held>>

\* TSnapShotContainer::setIsCleared
setIsCleared(t, c, flag) ==
  /\ pc[t] = "idle"
  /\ InUse(c)
  /\ container' = [container EXCEPT ![c].isCleared = flag]
  /\ Return(t, "setIsCleared", NULL)
  /\ UNCHANGED <<poolVars, clsCounter, childCounter, freed, regVars, hdrVars, held>>

\* A call of TSnapShotContainer::clear by the client
callClear(t, c, isForce) ==
  /\ pc[t] = "idle"
  /\ InUse(c)
  /\ clear(c, isForce)
  /\ pc' = [pc EXCEPT ![t] = "idle"]
  /\ local' = [local EXCEPT ![t] = NoLocal]
  /\ ret' = [ret EXCEPT ![t] =
               [op |-> "clear", result |-> NULL, c |-> c, isForce |-> isForce]]
  /\ UNCHANGED <<poolVars, freed, regVars, hdrVars, held>>

\* The walker caches the reference field offsets of a class in its
\* TClassCounter (offsets, offsetCount).
cacheOffsets(t, c, i, n) ==
  /\ pc[t] = "idle"
  /\ InUse(c)
  /\ i \in MappedCounters(c)
  /\ clsCounter[i].offsets = NULL
  /\ clsCounter' = [clsCounter EXCEPT ![i].offsets = 1, ![i].offsetCount = n]
  /\ Return(t, "cacheOffsets", NULL)
  /\ UNCHANGED <<poolVars, container, childCounter, freed, regVars, hdrVars, held>>

(***************************************************************************)
(* Child class counters: pushNewChildClass and findChildClass.             *)
(***************************************************************************)
\* TSnapShotContainer::pushNewChildClass: calloc, posix_memalign,
\* clearObjectCounter, newCounter->objData = objData; allocOk: both
\* allocations succeed
pushNewChildClass(t, c, i, od, allocOk) ==
  /\ pc[t] = "idle"
  /\ InUse(c)
  /\ i \in MappedCounters(c)
  /\ od \in DOMAIN objData
  /\ IF allocOk
     THEN /\ Len(childCounter) < MaxChildCounters
          /\ childCounter' =
               Append(childCounter,
                      [counter |-> clearObjectCounter(ZeroCounter),
                       objData |-> od, next |-> NULL, callCount |-> 0])
          /\ pc' = [pc EXCEPT ![t] = "pushNewChildClass_lock"]
          /\ local' = [local EXCEPT ![t] =
                         [op |-> "pushNewChildClass", clsCounter |-> i,
                          newCounter |-> Len(childCounter) + 1,
                          counter |-> NULL]]
          /\ UNCHANGED ret
     ELSE /\ Return(t, "pushNewChildClass", NULL)
          /\ UNCHANGED childCounter
  /\ UNCHANGED <<poolVars, container, clsCounter, freed, regVars, hdrVars, held>>

\* pushNewChildClass: spinLockWait(&clsCounter->spinlock)
pushNewChildClassLock(t) ==
  /\ pc[t] = "pushNewChildClass_lock"
  /\ clsCounter[local[t].clsCounter].spinlock = 0
  /\ clsCounter' = [clsCounter EXCEPT ![local[t].clsCounter].spinlock = 1]
  /\ pc' = [pc EXCEPT ![t] = "pushNewChildClass_head"]
  /\ UNCHANGED <<poolVars, container, childCounter, freed, regVars, hdrVars, held,
                 local, ret>>

\* pushNewChildClass: counter = clsCounter->child; if (counter == NULL)
pushNewChildClassHead(t) ==
  /\ pc[t] = "pushNewChildClass_head"
  /\ local' = [local EXCEPT ![t].counter = clsCounter[local[t].clsCounter].child]
  /\ pc' = [pc EXCEPT ![t] =
              IF clsCounter[local[t].clsCounter].child = NULL
              THEN "pushNewChildClass_first" ELSE "pushNewChildClass_last"]
  /\ UNCHANGED <<poolVars, heapVars, regVars, hdrVars, held, ret>>

\* pushNewChildClass: clsCounter->child = newCounter
pushNewChildClassFirst(t) ==
  /\ pc[t] = "pushNewChildClass_first"
  /\ clsCounter' =
       [clsCounter EXCEPT ![local[t].clsCounter].child = local[t].newCounter]
  /\ pc' = [pc EXCEPT ![t] = "pushNewChildClass_unlock"]
  /\ UNCHANGED <<poolVars, container, childCounter, freed, regVars, hdrVars, held,
                 local, ret>>

\* The test that ends while (counter->next != NULL)
IsLastBug(cc, counter) == TRUE
IsLast(cc, counter) == cc[counter].next = NULL

\* A thread of the process dereferenced NULL: SIGSEGV ends the process.
Crashed == \E t \in DOMAIN pc : pc[t] = "crashed"

\* pushNewChildClass: the test of while (counter->next != NULL).  counter is
\* NULL when an unlocked findChildClass stored NULL into the next that
\* counter = counter->next then read; the test dereferences it.
pushNewChildClassLast(t) ==
  /\ pc[t] = "pushNewChildClass_last"
  /\ pc' = [pc EXCEPT ![t] =
              IF local[t].counter = NULL THEN "crashed"
              ELSE IF ~IsLast(childCounter, local[t].counter)
              THEN "pushNewChildClass_step"
              ELSE "pushNewChildClass_link"]
  /\ UNCHANGED <<poolVars, heapVars, regVars, hdrVars, held, local, ret>>

\* pushNewChildClass: counter = counter->next, a load of its own
pushNewChildClassStep(t) ==
  /\ pc[t] = "pushNewChildClass_step"
  /\ local' = [local EXCEPT ![t].counter = childCounter[local[t].counter].next]
  /\ pc' = [pc EXCEPT ![t] = "pushNewChildClass_last"]
  /\ UNCHANGED <<poolVars, heapVars, regVars, hdrVars, held, ret>>

\* pushNewChildClass: counter->next = newCounter
pushNewChildClassLink(t) ==
  /\ pc[t] = "pushNewChildClass_link"
  /\ childCounter' =
       [childCounter EXCEPT ![local[t].counter].next = local[t].newCounter]
  /\ pc' = [pc EXCEPT ![t] = "pushNewChildClass_unlock"]
  /\ UNCHANGED <<poolVars, container, clsCounter, freed, regVars, hdrVars, held,
                 local, ret>>

\* pushNewChildClass: spinLockRelease(&clsCounter->spinlock); return newCounter
pushNewChildClassUnlock(t) ==
  /\ pc[t] = "pushNewChildClass_unlock"
  /\ clsCounter' = [clsCounter EXCEPT ![local[t].clsCounter].spinlock = 0]
  /\ Return(t, "pushNewChildClass", local[t].newCounter)
  /\ UNCHANGED <<poolVars, container, childCounter, freed, regVars, hdrVars, held>>

\* counter->callCount++ (an unsigned int: it wraps only after 2^32 - 1 hits,
\* which the guard on MaxCallCount keeps out of reach)
IncCallCount(n) == n + 1

\* if (prevCounter != NULL && prevCounter->callCount <= counter->callCount),
\* on the values the two loads of callCount gave
NeedPromoteBug(prevCounter, prevCallCount, callCount) ==
  prevCounter # NULL /\ prevCallCount < callCount
NeedPromote(prevCounter, prevCallCount, callCount) ==
  prevCounter # NULL /\ prevCallCount <= callCount

\* prevCounter->next = counter->next, the store of the value loaded
UnlinkBug(cc, prevCounter, next) == cc
Unlink(cc, prevCounter, next) == [cc EXCEPT ![prevCounter].next = next]

\* TSnapShotContainer::findChildClass: counter = clsCounter->child
findChildClass(t, c, i, klassOop) ==
  /\ pc[t] = "idle"
  /\ InUse(c)
  /\ i \in MappedCounters(c)
  /\ \A k \in DOMAIN childCounter : childCounter[k].callCount < MaxCallCount
  /\ IF clsCounter[i].child = NULL
     THEN Return(t, "findChildClass", NULL)
     ELSE /\ pc' = [pc EXCEPT ![t] = "findChildClass_search"]
          /\ local' = [local EXCEPT ![t] =
                         [op |-> "findChildClass", clsCounter |-> i,
                          klassOop |-> klassOop, prevCounter |-> NULL,
                          morePrevCounter |-> NULL,
                          counter |-> clsCounter[i].child, callCount |-> 0,
                          prevCallCount |-> 0, next |-> NULL]]
          /\ UNCHANGED ret
  /\ UNCHANGED <<poolVars, heapVars, regVars, hdrVars, held>>

\* findChildClass: while (counter->objData->klassOop != klassOop)
findChildClassSearch(t) ==
  /\ pc[t] = "findChildClass_search"
  /\ LET l == local[t]
     IN IF objData[childCounter[l.counter].objData].klassOop # l.klassOop
        THEN IF childCounter[l.counter].next = NULL
             THEN Return(t, "findChildClass", NULL)
             ELSE /\ local' = [local EXCEPT ![t] =
                                 [l EXCEPT !.morePrevCounter = l.prevCounter,
                                           !.prevCounter = l.counter,
                                           !.counter = childCounter[l.counter].next]]
                  /\ UNCHANGED <<pc, ret>>
        ELSE /\ pc' = [pc EXCEPT ![t] = "findChildClass_lfu"]
             /\ UNCHANGED <<local, ret>>
  /\ UNCHANGED <<poolVars, heapVars, regVars, hdrVars, held>>

\* findChildClass: counter->callCount++, the load of callCount
findChildClassLfu(t) ==
  /\ pc[t] = "findChildClass_lfu"
  /\ local' = [local EXCEPT ![t].callCount =
                 childCounter[local[t].counter].callCount]
  /\ pc' = [pc EXCEPT ![t] = "findChildClass_inc"]
  /\ UNCHANGED <<poolVars, heapVars, regVars, hdrVars, held, ret>>

\* findChildClass: counter->callCount++, the store of the value loaded plus 1
findChildClassInc(t) ==
  /\ pc[t] = "findChildClass_inc"
  /\ childCounter' =
       [childCounter EXCEPT ![local[t].counter].callCount =
          IncCallCount(local[t].callCount)]
  /\ pc' = [pc EXCEPT ![t] = "findChildClass_test"]
  /\ UNCHANGED <<poolVars, container, clsCounter, freed, regVars, hdrVars, held,
                 local, ret>>

\* findChildClass: the test of the promotion, prevCounter != NULL and the
\* load of prevCounter->callCount
findChildClassTest(t) ==
  /\ pc[t] = "findChildClass_test"
  /\ IF local[t].prevCounter = NULL
     THEN Return(t, "findChildClass", local[t].counter)
     ELSE /\ local' = [local EXCEPT ![t].prevCallCount =
                         childCounter[local[t].prevCounter].callCount]
          /\ pc' = [pc EXCEPT ![t] = "findChildClass_cmp"]
          /\ UNCHANGED ret
  /\ UNCHANGED <<poolVars, heapVars, regVars, hdrVars, held>>

\* findChildClass: the test of the promotion, <= counter->callCount.
\* reload: the build reads counter->callCount from memory again; otherwise
\* it uses the value it stored.
findChildClassCmp(t, reload) ==
  /\ pc[t] = "findChildClass_cmp"
  /\ LET callCount == IF reload THEN childCounter[local[t].counter].callCount
                      ELSE IncCallCount(local[t].callCount)
     IN IF NeedPromote(local[t].prevCounter, local[t].prevCallCount, callCount)
        THEN /\ pc' = [pc EXCEPT ![t] = "findChildClass_unlink"]
             /\ UNCHANGED <<local, ret>>
        ELSE Return(t, "findChildClass", local[t].counter)
  /\ UNCHANGED <<poolVars, heapVars, regVars, hdrVars, held>>

\* findChildClass: prevCounter->next = counter->next, the load of
\* counter->next
findChildClassUnlink(t) ==
  /\ pc[t] = "findChildClass_unlink"
  /\ local' = [local EXCEPT ![t].next = childCounter[local[t].counter].next]
  /\ pc' = [pc EXCEPT ![t] = "findChildClass_unlinkStore"]
  /\ UNCHANGED <<poolVars, heapVars, regVars, hdrVars, held, ret>>

\* findChildClass: prevCounter->next = counter->next, the store
findChildClassUnlinkStore(t) ==
  /\ pc[t] = "findChildClass_unlinkStore"
  /\ childCounter' = Unlink(childCounter, local[t].prevCounter, local[t].next)
  /\ pc' = [pc EXCEPT ![t] = "findChildClass_move"]
  /\ UNCHANGED <<poolVars, container, clsCounter, freed, regVars, hdrVars, held,
                 local, ret>>

\* findChildClass: morePrevCounter->next = counter, or clsCounter->child = counter
findChildClassMove(t) ==
  /\ pc[t] = "findChildClass_move"
  /\ IF local[t].morePrevCounter # NULL
     THEN /\ childCounter' =
               [childCounter EXCEPT ![local[t].morePrevCounter].next =
                  local[t].counter]
          /\ UNCHANGED clsCounter
     ELSE /\ clsCounter' =
               [clsCounter EXCEPT ![local[t].clsCounter].child = local[t].counter]
          /\ UNCHANGED childCounter
  /\ pc' = [pc EXCEPT ![t] = "findChildClass_relink"]
  /\ UNCHANGED <<poolVars, container, freed, regVars, hdrVars, held, local, ret>>

\* counter->next = prevCounter
RelinkBug(cc, prevCounter, counter) ==
  [cc EXCEPT ![counter].next = cc[prevCounter].next]
Relink(cc, prevCounter, counter) == [cc EXCEPT ![counter].next = prevCounter]

\* findChildClass: counter->next = prevCounter; return counter
findChildClassRelink(t) ==
  /\ pc[t] = "findChildClass_relink"
  /\ childCounter' = Relink(childCounter, local[t].prevCounter, local[t].counter)
  /\ Return(t, "findChildClass", local[t].counter)
  /\ UNCHANGED <<poolVars, container, clsCounter, freed, regVars, hdrVars, held>>

(***************************************************************************)
(* Initial states.  InitBase is the state after globalInitialize and after *)
(* the class container interned NumClasses classes: an empty stock queue,  *)
(* no container, every thread idle.                                        *)
(***************************************************************************)
\* The host class pointer (klassOop) of the i-th class.
HostPtr(i) == 100 + i

InitRegistry ==
  /\ objData = [i \in 1..NumClasses |->
                  [tag |-> i, klassOop |-> HostPtr(i), isRemoved |-> FALSE]]
  /\ classMap = [p \in {HostPtr(i) : i \in 1..NumClasses} |-> p - 100]

InitThreads ==
  /\ pc = [t \in Threads |-> "idle"]
  /\ local = [t \in Threads |-> NoLocal]
  /\ held = [t \in Threads |-> {}]
  /\ ret = [t \in Threads |-> NoRet]

InitHist ==
  /\ opSum = ZeroCounter
  /\ results = {}
  /\ hist = <<>>

InitBase ==
  /\ stockQueue = <<>>
  /\ stockQueueIsNull = FALSE
  /\ deleted = {}
  /\ container = <<>>
  /\ header = <<>>
  /\ clsCounter = <<>>
  /\ childCounter = <<>>
  /\ freed = {}
  /\ InitRegistry
  /\ InitThreads
  /\ InitHist

(***************************************************************************)
(* SpecPool: several threads get and release instances.                    *)
(***************************************************************************)
NextPool ==
  \E t \in Threads :
    \/ \E allocOk \in BOOLEAN : getInstance(t, allocOk) /\ UNCHANGED histVars
    \/ \E instance \in held[t] \cup {NULL} :
         releaseInstance(t, instance) /\ UNCHANGED histVars
    \/ \E pushOk \in BOOLEAN : releaseStore(t, pushOk) /\ UNCHANGED histVars
    \/ releaseDelete(t) /\ UNCHANGED histVars

SpecPool == InitBase /\ [][NextPool]_vars

\* Thread t is idle and the call it completed last is op.
JustReturned(t, op) == pc[t] = "idle" /\ ret[t].op = op

AtRest == \A t \in Threads : pc[t] = "idle"

Holders(c) == {t \in Threads : c \in held[t]}

\* How many times container c is in the stock queue.
InQueue(c) == Cardinality({j \in DOMAIN stockQueue : stockQueue[j] = c})

\* C6: whenever no getInstance or releaseInstance call is in progress, the
\* stock queue holds at most MAX_STOCK_COUNT (2) containers.
C6_AtRestWithinCapacity == AtRest => Len(stockQueue) <= MAX_STOCK_COUNT

\* C8: every container ever created is held by exactly one client, or is in
\* the stock queue exactly once, or is deleted (and nothing else at the same
\* time); the container getInstance returned is held by the caller alone and
\* is not deleted.
C8_SingleOwner ==
  /\ \A c \in DOMAIN container :
       \/ Cardinality(Holders(c)) = 1 /\ InQueue(c) = 0 /\ c \notin deleted
       \/ Holders(c) = {} /\ InQueue(c) = 1 /\ c \notin deleted
       \/ Holders(c) = {} /\ InQueue(c) = 0 /\ c \in deleted
  /\ \A t \in Threads :
       JustReturned(t, "getInstance") /\ ret[t].result # NULL
         => Holders(ret[t].result) = {t} /\ ret[t].result \notin deleted

\* C8 witness: a container is deleted, another is in the queue, one thread just
\* got a container while another thread is in the middle of releaseInstance.
C8_Witness ==
  /\ deleted # {}
  /\ stockQueue # <<>>
  /\ \E t, u \in Threads :
       /\ JustReturned(t, "getInstance") /\ ret[t].result # NULL
       /\ pc[u] = "release_store"

(***************************************************************************)
(* SpecPoolSeq: one thread gets and releases instances, no allocation      *)
(* fails; hist records the calls in order.                                 *)
(***************************************************************************)
NextPoolSeq ==
  \E t \in {1} :
    \/ /\ Len(hist) < MaxOps
       /\ getInstance(t, TRUE)
       /\ hist' = Append(hist, [op |-> "getInstance", c |-> ret'[t].result])
       /\ UNCHANGED <<opSum, results>>
    \/ /\ Len(hist) < MaxOps
       /\ \E instance \in held[t] :
            /\ releaseInstance(t, instance)
            /\ hist' = Append(hist, [op |-> "releaseInstance", c |-> instance])
       /\ UNCHANGED <<opSum, results>>
    \/ releaseStore(t, TRUE) /\ UNCHANGED histVars
    \/ releaseDelete(t) /\ UNCHANGED histVars

SpecPoolSeq == InitBase /\ [][NextPoolSeq]_vars

\* The number of leading events of h from position from on whose op is op.
RECURSIVE RunLength(_, _, _)
RunLength(h, from, op) ==
  IF from > Len(h) \/ h[from].op # op THEN 0
  ELSE 1 + RunLength(h, from + 1, op)

Min(a, b) == IF a <= b THEN a ELSE b

\* C7: in a single-threaded run from an empty pool that is a getInstance calls,
\* then n releaseInstance calls of r1..rn, then m getInstance calls:
\* after the releases the queue holds r1..r_min(n,2) in that order and the
\* others are deleted; the j-th getInstance after them returns r_j while
\* j <= min(n, 2), and a new container (never seen before) otherwise, as does
\* every one of the first a calls.
C7_PoolRecycling ==
  pc[1] = "idle" =>
    LET a == RunLength(hist, 1, "getInstance")
        n == RunLength(hist, a + 1, "releaseInstance")
        m == RunLength(hist, a + n + 1, "getInstance")
        k == Min(n, MAX_STOCK_COUNT)
        r(j) == hist[a + j].c
        got(j) == hist[a + n + j].c
        Fresh(j) == hist[j].c # NULL /\ \A i \in 1..(j - 1) : hist[i].c # hist[j].c
    IN a + n + m = Len(hist) =>
         /\ \A j \in 1..a : Fresh(j)
         /\ stockQueue = [j \in 1..(k - Min(m, k)) |-> r(Min(m, k) + j)]
         /\ deleted = {r(j) : j \in (k + 1)..n}
         /\ \A j \in 1..m :
              IF j <= k THEN got(j) = r(j) ELSE Fresh(a + n + j)

\* C7 witness: three containers got, all three released, three got again:
\* the first two are the ones released first, the third is new.
C7_Witness ==
  /\ pc[1] = "idle"
  /\ Len(hist) = 9
  /\ RunLength(hist, 1, "getInstance") = 3
  /\ RunLength(hist, 4, "releaseInstance") = 3
  /\ RunLength(hist, 7, "getInstance") = 3
  /\ hist[7].c = hist[4].c /\ hist[8].c = hist[5].c
  /\ hist[6].c \in deleted /\ hist[9].c \notin {hist[j].c : j \in 1..8}

(***************************************************************************)
(* A snapshot being filled: thread 1 got container 1 from getInstance and  *)
(* the walker threads work on it.  InitWalk is that state; InitCounted is  *)
(* the state after pushNewClass(objData 1) on it returned class counter 1. *)
(***************************************************************************)
InitWalk ==
  /\ stockQueue = <<>>
  /\ stockQueueIsNull = FALSE
  /\ deleted = {}
  /\ container = <<NewContainer>>
  /\ header = <<NewHeader>>
  /\ clsCounter = <<>>
  /\ childCounter = <<>>
  /\ freed = {}
  /\ InitRegistry
  /\ pc = [t \in Threads |-> "idle"]
  /\ local = [t \in Threads |-> NoLocal]
  /\ held = [t \in Threads |-> IF t = 1 THEN {1} ELSE {}]
  /\ ret = [t \in Threads |->
              IF t = 1 THEN [op |-> "getInstance", result |-> 1] ELSE NoRet]
  /\ InitHist

InitCounted ==
  /\ stockQueue = <<>>
  /\ stockQueueIsNull = FALSE
  /\ deleted = {}
  /\ container = <<[NewContainer EXCEPT !.counterMap = MapPut(@, 1, 1)]>>
  /\ header = <<NewHeader>>
  /\ clsCounter = <<[counter |-> ZeroCounter, child |-> NULL, spinlock |-> 0,
                     offsets |-> NULL, offsetCount |-> -1]>>
  /\ childCounter = <<>>
  /\ freed = {}
  /\ InitRegistry
  /\ pc = [t \in Threads |-> "idle"]
  /\ local = [t \in Threads |-> NoLocal]
  /\ held = [t \in Threads |-> IF t = 1 THEN {1} ELSE {}]
  /\ ret = [t \in Threads |->
              IF t = 1 THEN [op |-> "pushNewClass", result |-> 1] ELSE NoRet]
  /\ InitHist

(***************************************************************************)
(* SpecCounter: the walker threads call Inc and addInc on the counter of   *)
(* class counter 1; opSum is the sum of the operands of the calls made.    *)
(***************************************************************************)
Sizes == 1..2
Operands == {[count |-> 1, total_size |-> s] : s \in Sizes}

NextCounter ==
  \E t \in Threads :
    \/ /\ opSum.count < MaxCalls
       /\ \E size \in Sizes :
            /\ Inc(t, 1, <<"cls", 1>>, size)
            /\ opSum' = [count |-> opSum.count + 1,
                         total_size |-> opSum.total_size + size]
       /\ UNCHANGED <<results, hist>>
    \/ /\ opSum.count < MaxCalls
       /\ \E operand \in Operands :
            /\ addInc(t, 1, <<"cls", 1>>, operand)
            /\ opSum' = [count |-> opSum.count + operand.count,
                         total_size |-> opSum.total_size + operand.total_size]
       /\ UNCHANGED <<results, hist>>
    \/ addIncStoreCount(t) /\ UNCHANGED histVars
    \/ addIncLoadSize(t) /\ UNCHANGED histVars
    \/ addIncStoreSize(t) /\ UNCHANGED histVars

SpecCounter == InitCounted /\ [][NextCounter]_vars

\* C1: once every Inc and addInc call has returned, the counter equals its
\* initial value (0, 0) plus the sum of the operands of all the calls.
C1_NoLostUpdate == AtRest => clsCounter[1].counter = opSum

(***************************************************************************)
(* SpecMap: the walker threads call pushNewClass and findClass on          *)
(* container 1; results records what each call returned.                   *)
(***************************************************************************)
\* The calls recorded in results that pushed od and returned a class counter.
Pushed(od) ==
  {e \in results : e.op = "pushNewClass" /\ e.objData = od /\ e.result # NULL}

NextMap ==
  \E t \in Threads :
    \/ /\ \E od \in DOMAIN objData :
            /\ findClass(t, 1, od)
            /\ results' = results \cup
                 {[op |-> "findClass", objData |-> od,
                   result |-> ret'[t].result, pushed |-> Pushed(od) # {}]}
       /\ UNCHANGED <<opSum, hist>>
    \/ /\ \E od \in DOMAIN objData, allocOk \in BOOLEAN :
            pushNewClass(t, 1, od, allocOk)
       /\ UNCHANGED histVars
    \/ /\ \E insertOk \in BOOLEAN : pushNewClassInsert(t, insertOk)
       /\ UNCHANGED histVars
    \/ /\ pushNewClassStore(t)
       /\ results' = results \cup
            {[op |-> "pushNewClass", objData |-> local[t].objData,
              result |-> ret'[t].result, pushed |-> TRUE]}
       /\ UNCHANGED <<opSum, hist>>

SpecMap == InitWalk /\ [][NextMap]_vars

\* C2: findClass(r) returns NULL only while no pushNewClass(r) has returned a
\* class counter, and all non-null results of findClass(r) and pushNewClass(r)
\* are one and the same class counter.
C2_StableClassCounter ==
  /\ \A e \in results :
       e.op = "findClass" /\ e.result = NULL => ~e.pushed
  /\ \A e1, e2 \in results :
       e1.objData = e2.objData /\ e1.result # NULL /\ e2.result # NULL
         => e1.result = e2.result

(***************************************************************************)
(* SpecChild: one thread creates child class counters under class counter  *)
(* 1 (pushNewChildClass after a miss, as the walker does) and looks them   *)
(* up with findChildClass; hist holds the list, the heap of child counters *)
(* and the key as they were when the last findChildClass was called.       *)
(***************************************************************************)
\* The klassOop values findChildClass is called with: of every class, and one
\* that belongs to no class.
KlassOops == {HostPtr(i) : i \in 0..NumClasses}

TotalCalls ==
  LET RECURSIVE Sum(_)
      Sum(k) == IF k = 0 THEN 0 ELSE childCounter[k].callCount + Sum(k - 1)
  IN Sum(Len(childCounter))

NextChild ==
  \E t \in {1} :
    \/ /\ \E od \in DOMAIN objData, allocOk \in BOOLEAN :
            /\ \A k \in Range(Children(1)) : childCounter[k].objData # od
            /\ pushNewChildClass(t, 1, 1, od, allocOk)
       /\ hist' = <<>>
       /\ UNCHANGED <<opSum, results>>
    \/ pushNewChildClassLock(t) /\ UNCHANGED histVars
    \/ pushNewChildClassHead(t) /\ UNCHANGED histVars
    \/ pushNewChildClassFirst(t) /\ UNCHANGED histVars
    \/ pushNewChildClassLast(t) /\ UNCHANGED histVars
    \/ pushNewChildClassStep(t) /\ UNCHANGED histVars
    \/ pushNewChildClassLink(t) /\ UNCHANGED histVars
    \/ pushNewChildClassUnlock(t) /\ UNCHANGED histVars
    \/ /\ TotalCalls < MaxCallCount
       /\ \E klassOop \in KlassOops : 
            /\ findChildClass(t, 1, 1, klassOop)
            /\ hist' = <<[list |-> Children(1), cc |-> childCounter,
                          klassOop |-> klassOop]>>
       /\ UNCHANGED <<opSum, results>>
    \/ findChildClassSearch(t) /\ UNCHANGED histVars
    \/ findChildClassLfu(t) /\ UNCHANGED histVars
    \/ findChildClassInc(t) /\ UNCHANGED histVars
    \/ findChildClassTest(t) /\ UNCHANGED histVars
    \/ (\E reload \in BOOLEAN : findChildClassCmp(t, reload)) /\ UNCHANGED histVars
    \/ findChildClassUnlink(t) /\ UNCHANGED histVars
    \/ findChildClassUnlinkStore(t) /\ UNCHANGED histVars
    \/ findChildClassMove(t) /\ UNCHANGED histVars
    \/ findChildClassRelink(t) /\ UNCHANGED histVars

SpecChild == InitCounted /\ [][NextChild]_vars

NoDuplicates(s) == \A i, j \in DOMAIN s : s[i] = s[j] => i = j

\* C9: when a findChildClass call has returned, the child list holds the same
\* nodes as when it was called, each once, and ends in NULL (no cycle).
C9_ChildListPreserved ==
  JustReturned(1, "findChildClass") =>
    LET before == hist[1].list
        now == Children(1)
    IN /\ Len(now) = Len(before)
       /\ Range(now) = Range(before)
       /\ NoDuplicates(now)
       /\ Len(now) <= Len(childCounter)
       /\ now # <<>> => childCounter[now[Len(now)]].next = NULL

\* C9 witness: a findChildClass call on a list of three nodes returned after
\* it moved the node it found.
C9_Witness ==
  /\ JustReturned(1, "findChildClass")
  /\ Len(hist[1].list) = 3
  /\ Children(1) # hist[1].list

\* The positions of list s (with child counters cc) whose class has klassOop.
HitPositions(s, cc, klassOop) ==
  {p \in DOMAIN s : objData[cc[s[p]].objData].klassOop = klassOop}

\* s with the elements at positions p - 1 and p exchanged.
Promoted(s, p) ==
  [j \in DOMAIN s |-> IF j = p - 1 THEN s[p] ELSE IF j = p THEN s[p - 1] ELSE s[j]]

\* C10: a findChildClass call that hits node k (the first node of the class)
\* returns k, adds one to k's callCount and changes no other node; if k has a
\* predecessor whose callCount is <= k's new callCount, k and the predecessor
\* change places, else the order is unchanged.  A miss returns NULL and changes
\* nothing.  Three children pushed as 1, 2, 3 and five hits on 3 (and no other
\* hit) give the order 3, 1, 2.
C10_Promotion ==
  /\ JustReturned(1, "findChildClass") =>
       LET b == hist[1]
           hits == HitPositions(b.list, b.cc, b.klassOop)
       IN IF hits = {}
          THEN /\ ret[1].result = NULL
               /\ childCounter = b.cc
               /\ Children(1) = b.list
          ELSE LET p == CHOOSE q \in hits : \A r \in hits : q <= r
                   k == b.list[p]
               IN /\ ret[1].result = k
                  /\ childCounter[k].callCount = b.cc[k].callCount + 1
                  /\ \A j \in DOMAIN childCounter :
                       /\ childCounter[j].counter = b.cc[j].counter
                       /\ childCounter[j].objData = b.cc[j].objData
                       /\ j # k => childCounter[j].callCount = b.cc[j].callCount
                  /\ Children(1) =
                       IF p > 1 /\ b.cc[b.list[p - 1]].callCount
                                     <= b.cc[k].callCount + 1
                       THEN Promoted(b.list, p) ELSE b.list
  /\ ( /\ pc[1] = "idle"
       /\ Len(childCounter) = 3
       /\ childCounter[1].callCount = 0
       /\ childCounter[2].callCount = 0
       /\ childCounter[3].callCount = 5 )
       => Children(1) = <<3, 1, 2>>

\* C10 witness: children 1, 2, 3 and five hits on 3, the last one just returned.
C10_Witness ==
  /\ JustReturned(1, "findChildClass")
  /\ ret[1].result = 3
  /\ Len(childCounter) = 3
  /\ childCounter[1].callCount = 0
  /\ childCounter[2].callCount = 0
  /\ childCounter[3].callCount = 5
  /\ Children(1) = <<3, 1, 2>>

(***************************************************************************)
(* SpecClear: one thread fills and clears container 1.  hist holds what    *)
(* the container was like when the last clear was called.                  *)
(***************************************************************************)
\* Every counter of container c reads (0, 0).
CountersZero(c) == \A ref \in CounterRefs(c) : CounterOf(ref) = ZeroCounter

\* No class counter of container c has an offsets cache.
OffsetsNull(c) ==
  \A i \in MappedCounters(c) :
    clsCounter[i].offsets = NULL /\ clsCounter[i].offsetCount = -1

UnitOperand == [count |-> 1, total_size |-> 1]

\* The calls of the walker that fill container c, made by thread t: a class
\* counter is pushed when findClass finds none, a child class counter when
\* findChildClass finds none; the classes met are the first FillClasses of
\* the registry, at most FillChildren children are created and no allocation
\* fails.
Fill(t, c) ==
  \/ \E od \in (1..FillClasses) \ DOMAIN container[c].counterMap :
       pushNewClass(t, c, od, TRUE)
  \/ \E i \in MappedCounters(c), od \in 1..FillClasses :
       /\ Len(childCounter) < FillChildren
       /\ \A k \in Range(Children(i)) : childCounter[k].objData # od
       /\ pushNewChildClass(t, c, i, od, TRUE)
  \/ \E ref \in CounterRefs(c) : Inc(t, c, ref, 1)
  \/ \E ref \in CounterRefs(c) : addInc(t, c, ref, UnitOperand)
  \/ \E i \in MappedCounters(c) : cacheOffsets(t, c, i, 1)

\* The steps that complete a call of Fill.
FillStep(t) ==
  \/ pushNewClassInsert(t, TRUE)
  \/ pushNewClassStore(t)
  \/ pushNewChildClassLock(t)
  \/ pushNewChildClassHead(t)
  \/ pushNewChildClassFirst(t)
  \/ pushNewChildClassLast(t)
  \/ pushNewChildClassStep(t)
  \/ pushNewChildClassLink(t)
  \/ pushNewChildClassUnlock(t)
  \/ addIncStoreCount(t)
  \/ addIncLoadSize(t)
  \/ addIncStoreSize(t)

NextClear ==
  \E t \in {1} :
    \/ Fill(t, 1) /\ hist' = <<>> /\ UNCHANGED <<opSum, results>>
    \/ FillStep(t) /\ UNCHANGED histVars
    \/ /\ \E flag \in BOOLEAN : setIsCleared(t, 1, flag)
       /\ hist' = <<>>
       /\ UNCHANGED <<opSum, results>>
    \/ /\ \E isForce \in BOOLEAN : callClear(t, 1, isForce)
       /\ hist' = <<[isCleared |-> container[1].isCleared,
                     zero |-> CountersZero(1),
                     childZero |->
                       \A k \in ChildrenOf(MappedCounters(1)) :
                         childCounter[k].counter = ZeroCounter,
                     offsetsNull |-> OffsetsNull(1),
                     container |-> container,
                     clsCounter |-> clsCounter,
                     childCounter |-> childCounter,
                     header |-> header]>>
       /\ UNCHANGED <<opSum, results>>

SpecClear == InitWalk /\ [][NextClear]_vars

\* C4: a container whose isCleared flag is true has all its counters, of
\* classes and of children, at (0, 0) and no offsets cache.
C4_ClearedMeansZero ==
  \A c \in DOMAIN container :
    c \notin deleted /\ container[c].isCleared
      => CountersZero(c) /\ OffsetsNull(c)

\* C5: when clear(isForce) has returned and isForce was true or the container
\* was not cleared already, every class counter in the counter map has counter
\* (0, 0), offsets NULL and offsetCount -1, all its children have counter
\* (0, 0), and isCleared is true.
C5_ClearZeroes ==
  JustReturned(1, "clear") /\ (ret[1].isForce \/ ~hist[1].isCleared) =>
    /\ \A i \in MappedCounters(ret[1].c) :
         /\ clsCounter[i].counter = ZeroCounter
         /\ clsCounter[i].offsets = NULL
         /\ clsCounter[i].offsetCount = -1
         /\ \A k \in Range(Children(i)) : childCounter[k].counter = ZeroCounter
    /\ container[ret[1].c].isCleared

\* C5 witness: a forced clear returned on a container that had nonzero class
\* and child counters and an offsets cache (while its flag said cleared).
C5_Witness ==
  /\ JustReturned(1, "clear")
  /\ ret[1].isForce
  /\ hist[1].isCleared
  /\ ~hist[1].zero /\ ~hist[1].childZero /\ ~hist[1].offsetsNull

\* C17: clear(false) on a container whose isCleared flag is true writes
\* nothing: the container, every class counter, every child class counter
\* and the header are as they were before the call.
C17_ClearNoOp ==
  JustReturned(1, "clear") /\ ~ret[1].isForce /\ hist[1].isCleared =>
    /\ container = hist[1].container
    /\ clsCounter = hist[1].clsCounter
    /\ childCounter = hist[1].childCounter
    /\ header = hist[1].header

\* C17 witness: clear(false) returned on a container that was flagged as
\* cleared while a counter of it was not zero and an offsets cache was set.
C17_Witness ==
  /\ JustReturned(1, "clear")
  /\ ~ret[1].isForce
  /\ hist[1].isCleared
  /\ ~hist[1].zero
  /\ ~hist[1].offsetsNull

\* A class counter without what clear may change.
ClassShape(cls) ==
  [cls EXCEPT !.counter = ZeroCounter, !.offsets = NULL, !.offsetCount = -1]

\* A child class counter without what clear may change.
ChildShape(node) == [node EXCEPT !.counter = ZeroCounter]

\* C18: clear, forced or not, keeps the shape of the container: the counter
\* map has the same keys and class counters, every class counter the same
\* child list (same nodes, same order, same objData and callCount); only
\* counters, offsets caches and isCleared may differ.
C18_ClearKeepsShape ==
  JustReturned(1, "clear") =>
    /\ container[ret[1].c].counterMap = hist[1].container[ret[1].c].counterMap
    /\ DOMAIN clsCounter = DOMAIN hist[1].clsCounter
    /\ DOMAIN childCounter = DOMAIN hist[1].childCounter
    /\ \A i \in DOMAIN clsCounter :
         /\ ClassShape(clsCounter[i]) = ClassShape(hist[1].clsCounter[i])
         /\ Children(i) = ChildList(hist[1].childCounter, hist[1].clsCounter[i].child)
    /\ \A k \in DOMAIN childCounter :
         ChildShape(childCounter[k]) = ChildShape(hist[1].childCounter[k])
    /\ header = hist[1].header

\* C18 witness: a clear that zeroed counters returned on a container with a
\* class counter that has two children.
C18_Witness ==
  /\ JustReturned(1, "clear")
  /\ ~hist[1].zero
  /\ CountersZero(ret[1].c)
  /\ \E i \in MappedCounters(ret[1].c) : Len(Children(i)) = 2

(***************************************************************************)
(* SpecRecycle: one thread gets a container, fills it, releases it and     *)
(* gets a container again (no setIsCleared and no clear of its own).       *)
(***************************************************************************)
NextRecycle ==
  \E t \in {1} :
    \/ /\ held[t] = {}
       /\ \E allocOk \in BOOLEAN : getInstance(t, allocOk)
       /\ Len(container') <= FillContainers
       /\ UNCHANGED histVars
    \/ \E instance \in held[t] \cup {NULL} :
         releaseInstance(t, instance) /\ UNCHANGED histVars
    \/ \E pushOk \in BOOLEAN : releaseStore(t, pushOk) /\ UNCHANGED histVars
    \/ releaseDelete(t) /\ UNCHANGED histVars
    \/ \E c \in held[t] : Fill(t, c) /\ UNCHANGED histVars
    \/ FillStep(t) /\ UNCHANGED histVars

SpecRecycle == InitBase /\ [][NextRecycle]_vars

\* C3: the container getInstance returns is fully cleared: isCleared is true,
\* every class and child counter reads (0, 0) and every offsets cache is NULL.
C3_AcquiredIsCleared ==
  JustReturned(1, "getInstance") /\ ret[1].result # NULL =>
    /\ container[ret[1].result].isCleared
    /\ CountersZero(ret[1].result)
    /\ OffsetsNull(ret[1].result)

(***************************************************************************)
(* TClassContainer: the class map at a safepoint.  The registry calls are  *)
(* made by one thread (class relocation happens at a single-threaded       *)
(* safepoint).                                                             *)
(***************************************************************************)
\* TClassContainer::findClass: the record classMap holds for klassOop
TClassContainer_findClass(m, klassOop) ==
  IF klassOop \in DOMAIN m THEN m[klassOop] ELSE NULL

\* (*classMap)[newKlassOop] = (*classMap)[oldKlassOop]: operator[] inserts a
\* key that is absent, with value NULL
AssignedBug(m, oldKlassOop, newKlassOop) == MapPut(m, newKlassOop, NULL)
Assigned(m, oldKlassOop, newKlassOop) ==
  LET withOld == IF oldKlassOop \in DOMAIN m THEN m
                 ELSE MapPut(m, oldKlassOop, NULL)
  IN MapPut(withOld, newKlassOop, withOld[oldKlassOop])

\* classMap->unsafe_erase(oldKlassOop)
ErasedBug(m, oldKlassOop) == m
Erased(m, oldKlassOop) == [k \in DOMAIN m \ {oldKlassOop} |-> m[k]]

\* TClassContainer::updateClass
updateClass(t, oldKlassOop, newKlassOop) ==
  /\ pc[t] = "idle"
  /\ classMap' = Erased(Assigned(classMap, oldKlassOop, newKlassOop),
                        oldKlassOop)
  /\ Return(t, "updateClass", NULL)
  /\ UNCHANGED <<poolVars, heapVars, hdrVars, objData, held>>

\* A call of TClassContainer::findClass
callFindClass(t, klassOop) ==
  /\ pc[t] = "idle"
  /\ pc' = pc
  /\ local' = local
  /\ ret' = [ret EXCEPT ![t] =
               [op |-> "TClassContainer::findClass",
                result |-> TClassContainer_findClass(classMap, klassOop),
                klassOop |-> klassOop]]
  /\ UNCHANGED <<poolVars, heapVars, hdrVars, regVars, held>>

\* TClassContainer::popClass: the record is marked as unloaded and kept
popClass(t, target) ==
  /\ pc[t] = "idle"
  /\ target \in DOMAIN objData
  /\ <<"objData", target>> \notin freed
  /\ objData' = [objData EXCEPT ![target].isRemoved = TRUE]
  /\ Return(t, "popClass", NULL)
  /\ UNCHANGED <<poolVars, heapVars, hdrVars, classMap, held>>

\* The host pointers of the calls: those of the classes and one more.
RelocPtrs == {HostPtr(i) : i \in 1..(NumClasses + 1)}

NextRegistry ==
  \E t \in {1} :
    \/ /\ \E oldKlassOop \in RelocPtrs, newKlassOop \in RelocPtrs :
            /\ updateClass(t, oldKlassOop, newKlassOop)
            /\ hist' = <<[classMap |-> classMap, objData |-> objData,
                          oldKlassOop |-> oldKlassOop,
                          newKlassOop |-> newKlassOop]>>
       /\ UNCHANGED <<opSum, results>>
    \/ /\ \E klassOop \in RelocPtrs : callFindClass(t, klassOop)
       /\ hist' = <<>>
       /\ UNCHANGED <<opSum, results>>
    \/ /\ \E target \in DOMAIN objData : popClass(t, target)
       /\ hist' = <<>>
       /\ UNCHANGED <<opSum, results>>

SpecRegistry == InitBase /\ [][NextRegistry]_vars

\* An updateClass(old, new) call has returned that found old mapped to a
\* record and had new # old.
Relocated ==
  /\ JustReturned(1, "updateClass")
  /\ hist # <<>>
  /\ hist[1].oldKlassOop # hist[1].newKlassOop
  /\ TClassContainer_findClass(hist[1].classMap, hist[1].oldKlassOop) # NULL

\* C11: after updateClass(old, new), with old mapped to record R and
\* new # old, findClass(new) is R, findClass(old) is NULL and R is still
\* marked as removed if it was before.
C11_RelocateMovesRecord ==
  Relocated =>
    LET R == hist[1].classMap[hist[1].oldKlassOop]
    IN /\ TClassContainer_findClass(classMap, hist[1].newKlassOop) = R
       /\ TClassContainer_findClass(classMap, hist[1].oldKlassOop) = NULL
       /\ hist[1].objData[R].isRemoved => objData[R].isRemoved

\* C11 witness: a record marked as removed was relocated to a pointer that
\* another record was mapped to.
C11_Witness ==
  /\ Relocated
  /\ objData[hist[1].classMap[hist[1].oldKlassOop]].isRemoved
  /\ TClassContainer_findClass(hist[1].classMap, hist[1].newKlassOop) # NULL

\* C12: updateClass writes no TObjectData (every record, its tag included,
\* is as before, and none is freed), and the record that was mapped to old
\* is, at the same address, the one mapped to new.
C12_RelocateKeepsRecord ==
  /\ JustReturned(1, "updateClass") /\ hist # <<>> =>
       /\ objData = hist[1].objData
       /\ freed = {}
  /\ Relocated =>
       LET R == hist[1].classMap[hist[1].oldKlassOop]
       IN /\ classMap[hist[1].newKlassOop] = R
          /\ objData[R].tag = hist[1].objData[R].tag

\* C12 witness: a record was relocated to a pointer not mapped before.
C12_Witness ==
  /\ Relocated
  /\ hist[1].newKlassOop \notin DOMAIN hist[1].classMap
  /\ objData[classMap[hist[1].newKlassOop]].tag
       = hist[1].classMap[hist[1].oldKlassOop]

(***************************************************************************)
(* The header setters.  The owner of a container sets the cause and the    *)
(* JVM information before it releases the container.                       *)
(***************************************************************************)
\* TSnapShotContainer::setSnapShotTime
setSnapShotTime(t, c, time) ==
  /\ pc[t] = "idle"
  /\ InUse(c)
  /\ header' = [header EXCEPT ![c].snapShotTime = time]
  /\ Return(t, "setSnapShotTime", NULL)
  /\ UNCHANGED <<poolVars, heapVars, regVars, held>>

\* TSnapShotContainer::setSnapShotCause
setSnapShotCause(t, c, cause) ==
  /\ pc[t] = "idle"
  /\ InUse(c)
  /\ header' = [header EXCEPT ![c].cause = cause]
  /\ Return(t, "setSnapShotCause", NULL)
  /\ UNCHANGED <<poolVars, heapVars, regVars, held>>

\* TSnapShotContainer::setTotalSize
setTotalSize(t, c, size) ==
  /\ pc[t] = "idle"
  /\ InUse(c)
  /\ header' = [header EXCEPT
                  ![c].mem = StoreJlong(@, "totalHeapSize", size)]
  /\ Return(t, "setTotalSize", NULL)
  /\ UNCHANGED <<poolVars, heapVars, regVars, held>>

\* setJvmInfo, the branch this->_header.cause == GC
CauseCopied(h, info) ==
  LET copied == strcpy(h.mem, info.gcCause)
  IN [h EXCEPT !.gcCauseLen = strlen(copied),
               !.mem = StoreJlong(copied, "gcWorktime", info.gcWorktime)]

\* setJvmInfo, the else branch
CauseCleared(h) ==
  [h EXCEPT !.gcCauseLen = 1,
            !.mem = StoreJlong([h.mem EXCEPT ![1] = 0], "gcWorktime", 0)]

\* setJvmInfo, the fields set from TJvmInfo after the branch
InfoCopied(h, info) ==
  [h EXCEPT !.mem =
     StoreJlong(
       StoreJlong(
         StoreJlong(
           StoreJlong(
             StoreJlong(
               StoreJlong(@, "FGCCount", info.FGCCount),
               "YGCCount", info.YGCCount),
             "newAreaSize", info.newAreaSize),
           "oldAreaSize", info.oldAreaSize),
         "metaspaceUsage", info.metaspaceUsage),
       "metaspaceCapacity", info.metaspaceCapacity)]

\* TJvmInfo *info == NULL
NullInfo == [null |-> TRUE]

\* TSnapShotContainer::setJvmInfo.  isGC: what the test of _header.cause
\* gives; a cause no statement has set can read as anything.  checked: the
\* build checks the size of the destination of strcpy and ends the process
\* when the copy does not fit (a copy past the array is undefined behaviour).
setJvmInfo(t, c, info, isGC, checked) ==
  /\ pc[t] = "idle"
  /\ InUse(c)
  /\ header[c].cause # "indeterminate" => isGC = (header[c].cause = "GC")
  /\ IF info = NullInfo
     THEN /\ Return(t, "setJvmInfo", NULL)
          /\ UNCHANGED header
     ELSE IF isGC /\ checked /\ Len(info.gcCause) + 1 > GC_CAUSE_SIZE
     THEN /\ pc' = [pc EXCEPT ![t] = "aborted"]
          /\ UNCHANGED <<header, local, ret>>
     ELSE /\ header' =
               [header EXCEPT ![c] =
                  InfoCopied(IF isGC THEN CauseCopied(@, info)
                             ELSE CauseCleared(@), info)]
          /\ Return(t, "setJvmInfo", NULL)
  /\ UNCHANGED <<poolVars, heapVars, regVars, held>>

\* "Allocation Failure"
AllocationFailure ==
  <<65, 108, 108, 111, 99, 97, 116, 105, 111, 110, 32,
    70, 97, 105, 108, 117, 114, 101>>

\* A string of n characters 'x'.
Filled(n) == [i \in 1..n |-> 120]

\* The values info->getGCCause() gives: the empty string, "GC",
\* "Allocation Failure", strings that fill gcCause with and without the
\* terminating NUL, and a longer one.
GCCauses ==
  {<<>>, <<71, 67>>, AllocationFailure, Filled(GC_CAUSE_SIZE - 1),
   Filled(GC_CAUSE_SIZE), Filled(MaxCauseLen)}

\* The values of TJvmInfo.
Infos ==
  {[gcCause |-> s, gcWorktime |-> n + 5, FGCCount |-> n + 2,
    YGCCount |-> n + 3, newAreaSize |-> n + 4, oldAreaSize |-> n + 6,
    metaspaceUsage |-> n + 7, metaspaceCapacity |-> n + 8] :
     s \in GCCauses, n \in {40}}

\* The values of TInvokeCause.
Causes == {"GC", "DataDumpRequest"}

NextHeader ==
  \E t \in {1} :
    \/ /\ held[t] = {}
       /\ getInstance(t, TRUE)
       /\ hist' = <<>>
       /\ UNCHANGED <<opSum, results>>
    \/ \E instance \in held[t] :
         releaseInstance(t, instance) /\ UNCHANGED histVars
    \/ releaseStore(t, TRUE) /\ UNCHANGED histVars
    \/ /\ \E c \in held[t] : setSnapShotTime(t, c, 1000)
       /\ hist' = <<>>
       /\ UNCHANGED <<opSum, results>>
    \/ /\ \E c \in held[t], cause \in Causes : setSnapShotCause(t, c, cause)
       /\ hist' = <<>>
       /\ UNCHANGED <<opSum, results>>
    \/ /\ \E c \in held[t] : setTotalSize(t, c, 100)
       /\ hist' = <<>>
       /\ UNCHANGED <<opSum, results>>
    \/ /\ \E c \in held[t], info \in Infos \cup {NullInfo},
            isGC \in BOOLEAN, checked \in BOOLEAN :
            /\ setJvmInfo(t, c, info, isGC, checked)
            /\ hist' = <<[c |-> c, header |-> header[c], info |-> info,
                          isGC |-> isGC]>>
       /\ UNCHANGED <<opSum, results>>

SpecHeader == InitBase /\ [][NextHeader]_vars

\* A setJvmInfo call with non-NULL info has returned.
InfoSet ==
  /\ JustReturned(1, "setJvmInfo")
  /\ hist # <<>>
  /\ hist[1].info # NullInfo

\* The fields setJvmInfo copies from TJvmInfo whatever the cause is.
CopiedFields ==
  {"FGCCount", "YGCCount", "newAreaSize", "oldAreaSize", "metaspaceUsage",
   "metaspaceCapacity"}

\* Header h holds the GC cause, its length and the GC work time of info
\* (of the cause, the part that gcCause has room for).
HoldsCause(h, info) ==
  /\ h.gcCauseLen = Len(info.gcCause)
  /\ \A i \in 1..GC_CAUSE_SIZE :
       /\ i <= Len(info.gcCause) => h.mem[i] = info.gcCause[i]
       /\ i = Len(info.gcCause) + 1 => h.mem[i] = 0
  /\ LoadJlong(h.mem, "gcWorktime") = Jlong(info.gcWorktime)
  /\ info.gcCause = AllocationFailure => h.gcCauseLen = 18

\* Header h holds the empty GC cause: length 1, a NUL, work time 0.
HoldsNoCause(h) ==
  /\ h.gcCauseLen = 1
  /\ h.mem[1] = 0
  /\ LoadJlong(h.mem, "gcWorktime") = Jlong(0)

\* C13: setJvmInfo with non-NULL info copies the six counts and sizes of
\* info into the header; when the cause of the header was GC it also sets
\* the GC cause, its length and the GC work time from info, for any other
\* cause it sets length 1, a first byte NUL and work time 0 (a cause that
\* was never set can read either way).
C13_SetJvmInfo ==
  InfoSet =>
    LET b == hist[1].header
        info == hist[1].info
        h == header[hist[1].c]
    IN /\ \A name \in CopiedFields :
            LoadJlong(h.mem, name) = Jlong(info[name])
       /\ b.cause = "GC" => HoldsCause(h, info)
       /\ b.cause \in Causes \ {"GC"} => HoldsNoCause(h)
       /\ b.cause = "indeterminate" => HoldsCause(h, info) \/ HoldsNoCause(h)

\* C13 witness: setJvmInfo returned on a header with cause GC and info with
\* the GC cause "Allocation Failure" and full GC count 42.
C13_Witness ==
  /\ InfoSet
  /\ hist[1].header.cause = "GC"
  /\ hist[1].info.gcCause = AllocationFailure
  /\ header[hist[1].c].gcCauseLen = 18
  /\ LoadJlong(header[hist[1].c].mem, "FGCCount") = Jlong(42)

\* C14: setJvmInfo with cause GC ends without error for a GC cause of any
\* length, writes the cause inside gcCause only, records a length of at most
\* 80 and leaves the header fields it does not set as they were.
C14_CauseTruncated ==
  /\ pc[1] # "aborted"
  /\ InfoSet /\ hist[1].isGC =>
       LET b == hist[1].header
           h == header[hist[1].c]
       IN /\ h.gcCauseLen <= GC_CAUSE_SIZE
          /\ \A i \in DOMAIN b.mem :
               i > GC_CAUSE_SIZE => strcpy(b.mem, hist[1].info.gcCause)[i] = b.mem[i]
          /\ LoadJlong(h.mem, "totalHeapSize") = LoadJlong(b.mem, "totalHeapSize")
          /\ [h EXCEPT !.mem = <<>>, !.gcCauseLen = 0]
               = [b EXCEPT !.mem = <<>>, !.gcCauseLen = 0]

\* C15: after setJvmInfo with non-NULL info, gcCauseLen is at least 1.
C15_CauseLenPositive ==
  InfoSet => header[hist[1].c].gcCauseLen >= 1

\* Every byte of buffer after its first NUL is NUL.
NulPadded(buffer) ==
  \A i, j \in DOMAIN buffer : i < j /\ buffer[i] = 0 => buffer[j] = 0

\* C16: the gcCause buffer of every container is NUL-padded: no byte after
\* the end of the current GC cause is other than NUL.
C16_CauseNulPadded ==
  \A c \in DOMAIN header : NulPadded(GcCause(header[c].mem))

(***************************************************************************)
(* SpecAlloc: one thread pushes class counters and child class counters    *)
(* into container 1 while allocations may fail.  hist holds the container  *)
(* as it was when the last push was called and whether an allocation of    *)
(* that push failed.                                                       *)
(***************************************************************************)
BeforePush(failed) ==
  <<[container |-> container, clsCounter |-> clsCounter,
     childCounter |-> childCounter, failed |-> failed]>>

NextAlloc ==
  \E t \in {1} :
    \/ /\ \E od \in DOMAIN objData, allocOk \in BOOLEAN :
            /\ pushNewClass(t, 1, od, allocOk)
            /\ hist' = BeforePush(~allocOk)
       /\ UNCHANGED <<opSum, results>>
    \/ /\ \E insertOk \in BOOLEAN :
            /\ pushNewClassInsert(t, insertOk)
            /\ hist' = <<[hist[1] EXCEPT !.failed = ~insertOk]>>
       /\ UNCHANGED <<opSum, results>>
    \/ pushNewClassStore(t) /\ UNCHANGED histVars
    \/ /\ \E i \in MappedCounters(1), od \in DOMAIN objData,
            allocOk \in BOOLEAN :
            /\ pushNewChildClass(t, 1, i, od, allocOk)
            /\ hist' = BeforePush(~allocOk)
       /\ UNCHANGED <<opSum, results>>
    \/ pushNewChildClassLock(t) /\ UNCHANGED histVars
    \/ pushNewChildClassHead(t) /\ UNCHANGED histVars
    \/ pushNewChildClassFirst(t) /\ UNCHANGED histVars
    \/ pushNewChildClassLast(t) /\ UNCHANGED histVars
    \/ pushNewChildClassStep(t) /\ UNCHANGED histVars
    \/ pushNewChildClassLink(t) /\ UNCHANGED histVars
    \/ pushNewChildClassUnlock(t) /\ UNCHANGED histVars

SpecAlloc == InitWalk /\ [][NextAlloc]_vars

\* A pushNewClass or pushNewChildClass call has returned.
PushReturned ==
  JustReturned(1, "pushNewClass") \/ JustReturned(1, "pushNewChildClass")

\* C20: a pushNewClass or pushNewChildClass call in which an allocation (or
\* the map insertion) failed returns NULL and leaves the counter map, every
\* class counter and every child class counter, hence every child list, as
\* before the call, with no spin lock held; a call in which none failed
\* returns a counter.
C20_FailedPushChangesNothing ==
  PushReturned =>
    IF hist[1].failed
    THEN /\ ret[1].result = NULL
         /\ container = hist[1].container
         /\ \A i \in DOMAIN hist[1].clsCounter :
              clsCounter[i] = hist[1].clsCounter[i]
         /\ childCounter = hist[1].childCounter
         /\ \A i \in DOMAIN clsCounter : clsCounter[i].spinlock = 0
    ELSE ret[1].result # NULL

\* C20 witness: the map insertion of a pushNewClass call failed on a
\* container that holds a class counter with a child already.
C20_Witness ==
  /\ JustReturned(1, "pushNewClass")
  /\ hist[1].failed
  /\ freed # {}
  /\ \E i \in MappedCounters(1) : Children(i) # <<>>

(***************************************************************************)
(* SpecUnload: one thread fills, releases and reacquires a container while *)
(* classes are unloaded and their records removed from the class map.      *)
(***************************************************************************)
\* TClassContainer::removeClass: the record of an unloaded class is taken
\* out of the class map and deallocated.  It is called once the snapshots
\* that observed the unloading were written, hence with no container in a
\* thread's hand.
removeClass(t, target) ==
  /\ pc[t] = "idle"
  /\ \A u \in Threads : held[u] = {}
  /\ target \in DOMAIN objData
  /\ <<"objData", target>> \notin freed
  /\ objData[target].isRemoved
  /\ classMap' = [k \in {p \in DOMAIN classMap : classMap[p] # target} |->
                    classMap[k]]
  /\ freed' = freed \cup {<<"objData", target>>}
  /\ pc' = pc
  /\ local' = local
  /\ ret' = [ret EXCEPT ![t] = [op |-> "removeClass", result |-> NULL]]
  /\ UNCHANGED <<poolVars, container, clsCounter, childCounter, hdrVars,
                 objData, held>>

\* The records the class map holds.
Registered == {r \in DOMAIN objData : <<"objData", r>> \notin freed}

NextUnload ==
  \E t \in {1} :
    \/ /\ held[t] = {}
       /\ getInstance(t, TRUE)
       /\ UNCHANGED histVars
    \/ \E instance \in held[t] :
         releaseInstance(t, instance) /\ UNCHANGED histVars
    \/ releaseStore(t, TRUE) /\ UNCHANGED histVars
    \/ \E c \in held[t], od \in Registered :
         pushNewClass(t, c, od, TRUE) /\ UNCHANGED histVars
    \/ pushNewClassInsert(t, TRUE) /\ UNCHANGED histVars
    \/ pushNewClassStore(t) /\ UNCHANGED histVars
    \/ \E c \in held[t] :
         \E i \in MappedCounters(c), od \in Registered :
           pushNewChildClass(t, c, i, od, TRUE) /\ UNCHANGED histVars
    \/ pushNewChildClassLock(t) /\ UNCHANGED histVars
    \/ pushNewChildClassHead(t) /\ UNCHANGED histVars
    \/ pushNewChildClassFirst(t) /\ UNCHANGED histVars
    \/ pushNewChildClassLast(t) /\ UNCHANGED histVars
    \/ pushNewChildClassStep(t) /\ UNCHANGED histVars
    \/ pushNewChildClassLink(t) /\ UNCHANGED histVars
    \/ pushNewChildClassUnlock(t) /\ UNCHANGED histVars
    \/ \E target \in Registered : popClass(t, target) /\ UNCHANGED histVars
    \/ \E target \in Registered : removeClass(t, target) /\ UNCHANGED histVars

SpecUnload == InitBase /\ [][NextUnload]_vars

\* C19: every child class counter reachable from a class counter of a
\* container that was not deleted, in a thread's hand or in the stock queue,
\* refers to a record that was not removed from the registry.
C19_ChildRecordsPresent ==
  \A c \in DOMAIN container \ deleted :
    \A k \in ChildrenOf(MappedCounters(c)) :
      childCounter[k].objData \in Registered

(***************************************************************************)
(* SpecFinalize: the main thread calls globalInitialize once, gets and     *)
(* releases instances, and calls globalFinalize.  hist holds the stock as  *)
(* it was when globalFinalize was called and the instances that            *)
(* call has deleted, in order, for every globalFinalize call made.         *)
(***************************************************************************)
\* Before globalInitialize: the static stockQueue is NULL.
InitStatic ==
  /\ stockQueue = <<>>
  /\ stockQueueIsNull = TRUE
  /\ deleted = {}
  /\ container = <<>>
  /\ header = <<>>
  /\ clsCounter = <<>>
  /\ childCounter = <<>>
  /\ freed = {}
  /\ InitRegistry
  /\ InitThreads
  /\ InitHist

\* TSnapShotContainer::globalInitialize; allocOk: operator new does not throw
globalInitialize(t, allocOk) ==
  /\ pc[t] = "idle"
  /\ IF allocOk
     THEN /\ stockQueue' = <<>>
          /\ stockQueueIsNull' = FALSE
          /\ Return(t, "globalInitialize", 1)              \* return true
     ELSE /\ Return(t, "globalInitialize", NULL)           \* return false
          /\ UNCHANGED <<stockQueue, stockQueueIsNull>>
  /\ UNCHANGED <<deleted, heapVars, hdrVars, regVars, held>>

\* if (likely(stockQueue != NULL))
HasStockQueueBug(isNull) == isNull
HasStockQueue(isNull) == ~isNull

\* TSnapShotContainer::globalFinalize, up to the loop
globalFinalize(t) ==
  /\ pc[t] = "idle"
  /\ IF HasStockQueue(stockQueueIsNull)
     THEN /\ pc' = [pc EXCEPT ![t] = "finalize_pop"]
          /\ local' = [local EXCEPT ![t] = [op |-> "globalFinalize"]]
          /\ UNCHANGED ret
     ELSE Return(t, "globalFinalize", NULL)
  /\ UNCHANGED <<poolVars, heapVars, hdrVars, regVars, held>>

\* globalFinalize: while (stockQueue->try_pop(item)) delete item;
globalFinalizePop(t) ==
  /\ pc[t] = "finalize_pop"
  /\ stockQueue # <<>>
  /\ stockQueue' = Popped(stockQueue)
  /\ deleted' = deleted \cup {Head(stockQueue)}
  /\ freed' = freed \cup Destroyed(Head(stockQueue))
  /\ UNCHANGED <<stockQueueIsNull, container, clsCounter, childCounter,
                 hdrVars, regVars, threadVars>>

\* globalFinalize: try_pop failed; delete stockQueue; stockQueue = NULL
globalFinalizeDelete(t) ==
  /\ pc[t] = "finalize_pop"
  /\ stockQueue = <<>>
  /\ stockQueueIsNull' = TRUE
  /\ Return(t, "globalFinalize", NULL)
  /\ UNCHANGED <<stockQueue, deleted, heapVars, hdrVars, regVars, held>>

\* The stock when globalFinalize is called.
BeforeFinalize ==
  [stockQueue |-> stockQueue, stockQueueIsNull |-> stockQueueIsNull,
     deleted |-> deleted, freed |-> freed, container |-> container,
     popped |-> <<>>]

NextFinalize ==
  \E t \in {1} :
    \/ /\ stockQueueIsNull
       /\ ret[t] = NoRet
       /\ \E allocOk \in BOOLEAN : globalInitialize(t, allocOk)
       /\ UNCHANGED histVars
    \/ /\ ~stockQueueIsNull
       /\ \E allocOk \in BOOLEAN : getInstance(t, allocOk)
       /\ Len(container') <= FillContainers
       /\ UNCHANGED histVars
    \/ /\ ~stockQueueIsNull
       /\ \E instance \in held[t] : releaseInstance(t, instance)
       /\ UNCHANGED histVars
    \/ \E pushOk \in BOOLEAN : releaseStore(t, pushOk) /\ UNCHANGED histVars
    \/ releaseDelete(t) /\ UNCHANGED histVars
    \/ /\ \E c \in held[t] :
            \E od \in (1..FillClasses) \ DOMAIN container[c].counterMap :
              pushNewClass(t, c, od, TRUE)
       /\ UNCHANGED histVars
    \/ pushNewClassInsert(t, TRUE) /\ UNCHANGED histVars
    \/ pushNewClassStore(t) /\ UNCHANGED histVars
    \/ /\ ret[t] # NoRet
       /\ Len(hist) < MaxFinalize
       /\ globalFinalize(t)
       /\ hist' = Append(hist, BeforeFinalize)
       /\ UNCHANGED <<opSum, results>>
    \/ /\ globalFinalizePop(t)
       /\ hist' = [hist EXCEPT ![Len(hist)].popped =
                                Append(@, Head(stockQueue))]
       /\ UNCHANGED <<opSum, results>>
    \/ globalFinalizeDelete(t) /\ UNCHANGED histVars

SpecFinalize == InitStatic /\ [][NextFinalize]_vars

\* The record of the globalFinalize call made last.
LastFinalize == hist[Len(hist)]

\* C21: when globalFinalize returns there is no stock queue.  If there was
\* one when it was called, the call deleted every instance that was in the
\* queue, each once, none of them deleted before, and freed what they own;
\* if there was none (a further call), the stock and the heap are as they
\* were.  Each turn of the loop shortens the queue, so the call terminates.
C21_FinalizeDestroysStock ==
  /\ [](JustReturned(1, "globalFinalize") =>
          /\ stockQueueIsNull
          /\ stockQueue = <<>>
          /\ container = LastFinalize.container
          /\ IF LastFinalize.stockQueueIsNull
             THEN /\ deleted = LastFinalize.deleted
                  /\ freed = LastFinalize.freed
                  /\ LastFinalize.popped = <<>>
             ELSE /\ LastFinalize.popped = LastFinalize.stockQueue
                  /\ NoDuplicates(LastFinalize.popped)
                  /\ Range(LastFinalize.popped) \cap LastFinalize.deleted = {}
                  /\ deleted =
                       LastFinalize.deleted \cup Range(LastFinalize.popped)
                  /\ freed = LastFinalize.freed \cup
                       UNION {Destroyed(c) : c \in Range(LastFinalize.popped)})
  /\ [][pc[1] = "finalize_pop" /\ pc'[1] = "finalize_pop" =>
          Len(stockQueue') < Len(stockQueue)]_vars

\* C21 witness: a further globalFinalize call returned, after the first
\* call deleted the two instances of a full queue, one with class counters.
C21_Witness ==
  /\ JustReturned(1, "globalFinalize")
  /\ Len(hist) = 2
  /\ hist[2].stockQueueIsNull
  /\ Len(hist[1].popped) = MAX_STOCK_COUNT
  /\ \E c \in Range(hist[1].popped) : Destroyed(c) # {}

\* The header fields the constructor initialises are as it left them.
HeaderInitialized(h) ==
  /\ h.magicNumber = NewHeader.magicNumber
  /\ h.byteOrderMark = NewHeader.byteOrderMark
  /\ h.snapShotTime = 0
  /\ h.size = 0
  /\ \A i \in 1..GC_CAUSE_SIZE : GcCause(h.mem)[i] = 0

\* C22: the container getInstance returns, new or taken from the stock
\* queue, has isCleared true and its header as the constructor leaves it:
\* magicNumber and byteOrderMark set, snapShotTime and size 0, gcCause all
\* NUL.
C22_AcquiredHeaderInitialized ==
  JustReturned(1, "getInstance") /\ ret[1].result # NULL =>
    /\ container[ret[1].result].isCleared
    /\ HeaderInitialized(header[ret[1].result])

(***************************************************************************)
(* The byte image of TSnapShotFileHeader.  The struct is declared inside   *)
(* #pragma pack(push, 1): every member follows the one before it.          *)
(***************************************************************************)
\* sizeof(jint)
JINT_SIZE == 4

\* The members of TSnapShotFileHeader in declaration order, with the size
\* and the natural alignment of their types.
HeaderLayout ==
  <<[name |-> "magicNumber", size |-> 1, align |-> 1],
    [name |-> "byteOrderMark", size |-> 1, align |-> 1],
    [name |-> "snapShotTime", size |-> JLONG_SIZE, align |-> JLONG_SIZE],
    [name |-> "size", size |-> JLONG_SIZE, align |-> JLONG_SIZE],
    [name |-> "cause", size |-> JINT_SIZE, align |-> JINT_SIZE],
    [name |-> "gcCauseLen", size |-> JLONG_SIZE, align |-> JLONG_SIZE],
    [name |-> "gcCause", size |-> GC_CAUSE_SIZE, align |-> 1]>>
  \o [k \in DOMAIN TailFields |->
        [name |-> TailFields[k], size |-> JLONG_SIZE, align |-> JLONG_SIZE]]

\* #pragma pack(push, 1): the offset of a member that would start at offset
\* and whose type has alignment align
PackBug(offset, align) == ((offset + align - 1) \div align) * align
Pack(offset, align) == offset

\* The offset of the k-th member.
RECURSIVE OffsetAt(_)
OffsetAt(k) ==
  IF k = 1 THEN 0
  ELSE Pack(OffsetAt(k - 1) + HeaderLayout[k - 1].size, HeaderLayout[k].align)

\* The index of member name.
MemberIndex(name) ==
  CHOOSE k \in DOMAIN HeaderLayout : HeaderLayout[k].name = name

\* offsetof(TSnapShotFileHeader, name)
OffsetOf(name) == OffsetAt(MemberIndex(name))

\* sizeof(TSnapShotFileHeader)
SizeOfHeader ==
  OffsetAt(Len(HeaderLayout)) + HeaderLayout[Len(HeaderLayout)].size

\* The bytes of an integer member of width bytes that holds v; a member no
\* statement has written holds indeterminate bytes.
IntBytes(v, width) ==
  [b \in 1..width |-> IF v = Indeterminate THEN Indeterminate ELSE Jlong(v)[b]]

\* The values of TInvokeCause as integers.
CauseCode(cause) ==
  IF cause = "GC" THEN 1
  ELSE IF cause = "DataDumpRequest" THEN 2 ELSE Indeterminate

\* The byte BOM stands for.
BOMByte(mark) == IF mark = "BOM" THEN 76 ELSE Indeterminate

\* The bytes of member name of header h.
MemberBytes(h, name) ==
  IF name = "magicNumber" THEN IntBytes(h.magicNumber, 1)
  ELSE IF name = "byteOrderMark" THEN IntBytes(BOMByte(h.byteOrderMark), 1)
  ELSE IF name = "snapShotTime" THEN IntBytes(h.snapShotTime, JLONG_SIZE)
  ELSE IF name = "size" THEN IntBytes(h.size, JLONG_SIZE)
  ELSE IF name = "cause" THEN IntBytes(CauseCode(h.cause), JINT_SIZE)
  ELSE IF name = "gcCauseLen" THEN IntBytes(h.gcCauseLen, JLONG_SIZE)
  ELSE IF name = "gcCause" THEN GcCause(h.mem)
  ELSE LoadJlong(h.mem, name)

\* The bytes of header h as getHeader() exposes them, the first at index 1;
\* a byte between two members is indeterminate.
Image(h) ==
  LET offsets == [k \in DOMAIN HeaderLayout |-> OffsetAt(k)]
      bytes == [k \in DOMAIN HeaderLayout |->
                  MemberBytes(h, HeaderLayout[k].name)]
  IN [i \in 1..SizeOfHeader |->
        LET ks == {k \in DOMAIN HeaderLayout :
                     offsets[k] < i /\ i <= offsets[k] + HeaderLayout[k].size}
        IN IF ks = {} THEN Indeterminate
           ELSE LET k == CHOOSE j \in ks : TRUE IN bytes[k][i - offsets[k]]]

\* The width bytes of image at byte offset offset.
ReadAt(image, offset, width) ==
  IF offset + width <= Len(image)
  THEN [b \in 1..width |-> image[offset + b]]
  ELSE [b \in 1..width |-> Indeterminate]

\* The integer whose bytes, least significant first, are bytes; Indeterminate
\* when a byte is indeterminate or the integer is 2^31 or more.
IntValue(bytes) ==
  IF \/ \E b \in DOMAIN bytes : bytes[b] = Indeterminate
     \/ \E b \in DOMAIN bytes : b > 4 /\ bytes[b] # 0
     \/ (Len(bytes) >= 4 /\ bytes[4] >= 128)
  THEN Indeterminate
  ELSE LET RECURSIVE Sum(_)
           Sum(b) == IF b > Len(bytes) \/ b > 4 THEN 0
                     ELSE bytes[b] + 256 * Sum(b + 1)
       IN Sum(1)

\* The values of the setter calls.
Times == {0, 1000, 70000}
TotalSizes == {100, 100000}
LayoutInfos ==
  {[gcCause |-> s, gcWorktime |-> n + 5, FGCCount |-> n + 2,
    YGCCount |-> n + 3, newAreaSize |-> n + 4, oldAreaSize |-> n + 6,
    metaspaceUsage |-> 12345678, metaspaceCapacity |-> n + 8] :
     s \in {AllocationFailure, Filled(MaxCauseLen)}, n \in {40, 70000}}

\* The members setJvmInfo(info) writes from info, with the values written.
InfoWrites(info, isGC) ==
  [name \in CopiedFields \cup {"gcWorktime"} |->
     IF name = "gcWorktime" THEN (IF isGC THEN info.gcWorktime ELSE 0)
     ELSE info[name]]

\* One member written with value v.
Write(name, v) == [n \in {name} |-> v]

(***************************************************************************)
(* SpecLayout: one thread sets header fields of container 1.  hist holds   *)
(* the members the last call wrote and the values it wrote.                *)
(***************************************************************************)
NextLayout ==
  \E t \in {1} :
    \/ /\ \E time \in Times :
            /\ setSnapShotTime(t, 1, time)
            /\ hist' = <<Write("snapShotTime", time)>>
       /\ UNCHANGED <<opSum, results>>
    \/ /\ \E cause \in Causes :
            /\ setSnapShotCause(t, 1, cause)
            /\ hist' = <<Write("cause", CauseCode(cause))>>
       /\ UNCHANGED <<opSum, results>>
    \/ /\ \E size \in TotalSizes :
            /\ setTotalSize(t, 1, size)
            /\ hist' = <<Write("totalHeapSize", size)>>
       /\ UNCHANGED <<opSum, results>>
    \/ /\ \E info \in LayoutInfos, isGC \in BOOLEAN :
            /\ \E checked \in BOOLEAN : setJvmInfo(t, 1, info, isGC, checked)
            /\ hist' = IF pc'[t] = "aborted" THEN <<>>
                       ELSE <<InfoWrites(info, isGC)>>
       /\ UNCHANGED <<opSum, results>>

SpecLayout == InitWalk /\ [][NextLayout]_vars

\* C23: the members of the header lie at byte offsets 0, 1, 2, 10, 18, 22,
\* 30, 110, 118, 126, 134, 142, 150, 158, 166 with widths 1, 1, 8, 8, 4, 8,
\* 80 and 8 for each of the rest, 174 bytes in all, and the value a setter
\* writes to a member is the value read from the bytes of the header at the
\* member's offset; the members the constructor set read back too.
C23_PackedLayout ==
  LET FormatOffsets ==
        <<0, 1, 2, 10, 18, 22, 30, 110, 118, 126, 134, 142, 150, 158, 166>>
      image == Image(header[1])
      Read(name) ==
        IntValue(ReadAt(image, FormatOffsets[MemberIndex(name)],
                        HeaderLayout[MemberIndex(name)].size))
  IN /\ Len(HeaderLayout) = Len(FormatOffsets)
     /\ \A k \in DOMAIN HeaderLayout : OffsetAt(k) = FormatOffsets[k]
     /\ SizeOfHeader = 174
     /\ Read("magicNumber") = header[1].magicNumber
     /\ Read("size") = header[1].size
     /\ ReadAt(image, 30, 80) = GcCause(header[1].mem)
     /\ hist # <<>> =>
          \A name \in DOMAIN hist[1] : Read(name) = hist[1][name]

\* C23 witness: setJvmInfo wrote a metaspace usage of 12345678 and a
\* count above 65535 after the time and the total heap size were set.
C23_Witness ==
  /\ JustReturned(1, "setJvmInfo")
  /\ hist # <<>>
  /\ hist[1]["metaspaceUsage"] = 12345678
  /\ hist[1]["FGCCount"] > 65535
  /\ header[1].snapShotTime = 70000
  /\ IntValue(LoadJlong(header[1].mem, "totalHeapSize")) = 100000

(***************************************************************************)
(* SpecChildRace: the walker threads call findChildClass and               *)
(* pushNewChildClass on class counter 1 of container 1 with no             *)
(* partitioning.  hist is non-empty once a findChildClass call overlapped  *)
(* another call on the class counter.                                      *)
(***************************************************************************)
\* Thread t is inside a findChildClass call.
InFind(t) ==
  pc[t] \in {"findChildClass_search", "findChildClass_lfu",
             "findChildClass_inc", "findChildClass_test",
             "findChildClass_cmp", "findChildClass_unlink",
             "findChildClass_unlinkStore", "findChildClass_move",
             "findChildClass_relink"}

\* hist after thread t starts a findChildClass call
FindStarts(t) ==
  IF \E u \in Threads \ {t} : pc[u] # "idle" THEN <<"overlap">> ELSE hist

\* hist after thread t starts a pushNewChildClass call
PushStarts(t) ==
  IF \E u \in Threads \ {t} : InFind(u) THEN <<"overlap">> ELSE hist

NextChildRace ==
  /\ ~Crashed
  /\ \E t \in Threads :
    \/ /\ \E od \in {Len(childCounter) + 1} :   \* children in registry order
            /\ pushNewChildClass(t, 1, 1, od, TRUE)
       /\ hist' = PushStarts(t)
       /\ UNCHANGED <<opSum, results>>
    \/ pushNewChildClassLock(t) /\ UNCHANGED histVars
    \/ pushNewChildClassHead(t) /\ UNCHANGED histVars
    \/ pushNewChildClassFirst(t) /\ UNCHANGED histVars
    \/ pushNewChildClassLast(t) /\ UNCHANGED histVars
    \/ pushNewChildClassStep(t) /\ UNCHANGED histVars
    \/ pushNewChildClassLink(t) /\ UNCHANGED histVars
    \/ pushNewChildClassUnlock(t) /\ UNCHANGED histVars
    \/ /\ TotalCalls < MaxCalls
       /\ \E klassOop \in KlassOops : findChildClass(t, 1, 1, klassOop)
       /\ hist' = FindStarts(t)
       /\ UNCHANGED <<opSum, results>>
    \/ findChildClassSearch(t) /\ UNCHANGED histVars
    \/ findChildClassLfu(t) /\ UNCHANGED histVars
    \/ findChildClassInc(t) /\ UNCHANGED histVars
    \/ findChildClassTest(t) /\ UNCHANGED histVars
    \/ (\E reload \in BOOLEAN : findChildClassCmp(t, reload)) /\ UNCHANGED histVars
    \/ findChildClassUnlink(t) /\ UNCHANGED histVars
    \/ findChildClassUnlinkStore(t) /\ UNCHANGED histVars
    \/ findChildClassMove(t) /\ UNCHANGED histVars
    \/ findChildClassRelink(t) /\ UNCHANGED histVars

SpecChildRace == InitCounted /\ [][NextChildRace]_vars

\* Every child counter allocated is in the list of class counter 1 once, and
\* the list ends in NULL.
AllChildrenLinked ==
  /\ Range(Children(1)) = DOMAIN childCounter
  /\ NoDuplicates(Children(1))
  /\ Len(Children(1)) = Len(childCounter)

\* C24 as claimed: when the findChildClass and pushNewChildClass calls of
\* the threads on class counter 1 have returned, every node that was in the
\* list or was appended is reachable from the head exactly once, whatever
\* the overlap of the calls.
C24_NoChildLost == AtRest => AllChildrenLinked

\* C24 amended: the same, when no findChildClass call overlapped another
\* findChildClass or pushNewChildClass call on the class counter; and then
\* no call dereferences NULL.
C24_PartitionedNoChildLost ==
  hist = <<>> => ~Crashed /\ (AtRest => AllChildrenLinked)

\* C24 witness: with no overlap, both threads pushed children and a
\* findChildClass call that promoted the node it found returned.
C24_Witness ==
  /\ AtRest
  /\ hist = <<>>
  /\ ret[1].op = "findChildClass"
  /\ ret[1].result # NULL
  /\ ret[2].op = "pushNewChildClass"
  /\ Len(childCounter) = 3
  /\ Children(1) \notin {<<1, 2, 3>>, <<1, 2>>}

(***************************************************************************)
(* SpecOverfill: NumReleasers threads get instances and release them       *)
(* concurrently; no allocation and no push fails.                          *)
(***************************************************************************)
Releasers == 1..NumReleasers

InitOverfill ==
  /\ stockQueue = <<>>
  /\ stockQueueIsNull = FALSE
  /\ deleted = {}
  /\ container = <<>>
  /\ header = <<>>
  /\ clsCounter = <<>>
  /\ childCounter = <<>>
  /\ freed = {}
  /\ InitRegistry
  /\ pc = [t \in Releasers |-> "idle"]
  /\ local = [t \in Releasers |-> NoLocal]
  /\ held = [t \in Releasers |-> {}]
  /\ ret = [t \in Releasers |-> NoRet]
  /\ InitHist

NextOverfill ==
  \E t \in Releasers :
    \/ getInstance(t, TRUE) /\ UNCHANGED histVars
    \/ \E instance \in held[t] :
         releaseInstance(t, instance) /\ UNCHANGED histVars
    \/ releaseStore(t, TRUE) /\ UNCHANGED histVars
    \/ releaseDelete(t) /\ UNCHANGED histVars

SpecOverfill == InitOverfill /\ [][NextOverfill]_vars

\* C25: the stock queue never holds more than MAX_STOCK_COUNT + 1 = 3
\* instances, however many threads release concurrently.
C25_OverfillByOne == Len(stockQueue) <= MAX_STOCK_COUNT + 1

(***************************************************************************)
(* SpecPush: the walker threads call pushNewChildClass on class counter 1  *)
(* of container 1 concurrently; no findChildClass call is made.            *)
(***************************************************************************)
NextPush ==
  \E t \in Threads :
    \/ /\ \E od \in DOMAIN objData : pushNewChildClass(t, 1, 1, od, TRUE)
       /\ UNCHANGED histVars
    \/ pushNewChildClassLock(t) /\ UNCHANGED histVars
    \/ pushNewChildClassHead(t) /\ UNCHANGED histVars
    \/ pushNewChildClassFirst(t) /\ UNCHANGED histVars
    \/ pushNewChildClassLast(t) /\ UNCHANGED histVars
    \/ pushNewChildClassStep(t) /\ UNCHANGED histVars
    \/ pushNewChildClassLink(t) /\ UNCHANGED histVars
    \/ pushNewChildClassUnlock(t) /\ UNCHANGED histVars

SpecPush == InitCounted /\ [][NextPush]_vars

\* Thread t is between spinLockWait and spinLockRelease of pushNewChildClass.
InAppend(t) ==
  pc[t] \in {"pushNewChildClass_head", "pushNewChildClass_first",
             "pushNewChildClass_last", "pushNewChildClass_step",
             "pushNewChildClass_link",
             "pushNewChildClass_unlock"}

\* C26: at most one thread is inside the append of pushNewChildClass at a
\* time; the step that links the new node makes the list the former list
\* followed by the new node, whose counter is (0, 0) and callCount 0; and
\* when all calls have returned the list holds every node pushed, once.
C26_PushAppendsAtTail ==
  /\ [](\A t, u \in Threads : InAppend(t) /\ InAppend(u) => t = u)
  /\ [](AtRest => AllChildrenLinked)
  /\ [][\A t \in Threads :
          /\ pc[t] \in {"pushNewChildClass_first", "pushNewChildClass_link"}
          /\ pc'[t] = "pushNewChildClass_unlock"
          => /\ Children(1)' = Append(Children(1), local[t].newCounter)
             /\ childCounter'[local[t].newCounter].counter = ZeroCounter
             /\ childCounter'[local[t].newCounter].callCount = 0]_vars

\* C26 witness: both threads pushed concurrently onto a list that had a
\* node: the calls have returned, thread 2 waited for the lock thread 1
\* held, and the list holds the three nodes.
C26_Witness ==
  /\ AtRest
  /\ ret[1].op = "pushNewChildClass"
  /\ ret[2].op = "pushNewChildClass"
  /\ Len(Children(1)) = 3
  /\ Children(1) # <<1, 2, 3>>

(***************************************************************************)
(* SpecFindOrCreate: the walker threads look a child class up with         *)
(* findChildClass and, when it returns NULL, create it with                *)
(* pushNewChildClass.  hist holds the class each thread looked up last.    *)
(***************************************************************************)
\* Thread t looked od up and findChildClass returned NULL.
Missed(t, od) ==
  /\ JustReturned(t, "findChildClass")
  /\ ret[t].result = NULL
  /\ t \in DOMAIN hist
  /\ hist[t] = od

NextFindOrCreate ==
  /\ ~Crashed
  /\ \E t \in Threads :
    \/ /\ TotalCalls < MaxCalls
       /\ \E od \in 1..FillClasses :
            /\ findChildClass(t, 1, 1, objData[od].klassOop)
            /\ hist' = MapPut(hist, t, od)
       /\ UNCHANGED <<opSum, results>>
    \/ findChildClassSearch(t) /\ UNCHANGED histVars
    \/ findChildClassLfu(t) /\ UNCHANGED histVars
    \/ findChildClassInc(t) /\ UNCHANGED histVars
    \/ findChildClassTest(t) /\ UNCHANGED histVars
    \/ (\E reload \in BOOLEAN : findChildClassCmp(t, reload)) /\ UNCHANGED histVars
    \/ findChildClassUnlink(t) /\ UNCHANGED histVars
    \/ findChildClassUnlinkStore(t) /\ UNCHANGED histVars
    \/ findChildClassMove(t) /\ UNCHANGED histVars
    \/ findChildClassRelink(t) /\ UNCHANGED histVars
    \/ /\ \E od \in DOMAIN objData :
            /\ Missed(t, od)
            /\ pushNewChildClass(t, 1, 1, od, TRUE)
       /\ UNCHANGED histVars
    \/ pushNewChildClassLock(t) /\ UNCHANGED histVars
    \/ pushNewChildClassHead(t) /\ UNCHANGED histVars
    \/ pushNewChildClassFirst(t) /\ UNCHANGED histVars
    \/ pushNewChildClassLast(t) /\ UNCHANGED histVars
    \/ pushNewChildClassStep(t) /\ UNCHANGED histVars
    \/ pushNewChildClassLink(t) /\ UNCHANGED histVars
    \/ pushNewChildClassUnlock(t) /\ UNCHANGED histVars

SpecFindOrCreate == InitCounted /\ [][NextFindOrCreate]_vars

\* C27: the child list of class counter 1 never holds two nodes of the same
\* class record.
C27_OneChildPerRecord ==
  \A p, q \in DOMAIN Children(1) :
    childCounter[Children(1)[p]].objData = childCounter[Children(1)[q]].objData
      => p = q

\* An updateClass(old, new) call has returned whose old was not a key of
\* the class map, or whose old and new were the same pointer.
DegenerateRelocate ==
  /\ JustReturned(1, "updateClass")
  /\ hist # <<>>
  /\ \/ hist[1].oldKlassOop \notin DOMAIN hist[1].classMap
     \/ hist[1].oldKlassOop = hist[1].newKlassOop

\* C28: after an updateClass(old, new) call with old not in the class map,
\* or with old = new, findClass gives for every pointer what it gave before
\* the call.
C28_DegenerateRelocateNoOp ==
  DegenerateRelocate =>
    \A q \in RelocPtrs :
      TClassContainer_findClass(classMap, q)
        = TClassContainer_findClass(hist[1].classMap, q)

(***************************************************************************)
(* SpecRelocChild: one thread pushes child class counters to class counter *)
(* 1, relocates classes at a safepoint and looks children up.  hist holds  *)
(* the klassOop of the last findChildClass call.                           *)
(***************************************************************************)
NextRelocChild ==
  \E t \in {1} :
    \/ /\ \E od \in DOMAIN objData :
            /\ \A k \in DOMAIN childCounter : childCounter[k].objData # od
            /\ pushNewChildClass(t, 1, 1, od, TRUE)
       /\ UNCHANGED histVars
    \/ pushNewChildClassLock(t) /\ UNCHANGED histVars
    \/ pushNewChildClassHead(t) /\ UNCHANGED histVars
    \/ pushNewChildClassFirst(t) /\ UNCHANGED histVars
    \/ pushNewChildClassLast(t) /\ UNCHANGED histVars
    \/ pushNewChildClassStep(t) /\ UNCHANGED histVars
    \/ pushNewChildClassLink(t) /\ UNCHANGED histVars
    \/ pushNewChildClassUnlock(t) /\ UNCHANGED histVars
    \/ /\ \E oldKlassOop \in DOMAIN classMap,
            newKlassOop \in RelocPtrs \ DOMAIN classMap :
            updateClass(t, oldKlassOop, newKlassOop)
       /\ UNCHANGED histVars
    \/ /\ TotalCalls < MaxCalls
       /\ \E klassOop \in RelocPtrs :
            /\ findChildClass(t, 1, 1, klassOop)
            /\ hist' = <<[klassOop |-> klassOop]>>
       /\ UNCHANGED <<opSum, results>>
    \/ findChildClassSearch(t) /\ UNCHANGED histVars
    \/ findChildClassLfu(t) /\ UNCHANGED histVars
    \/ findChildClassInc(t) /\ UNCHANGED histVars
    \/ findChildClassTest(t) /\ UNCHANGED histVars
    \/ (\E reload \in BOOLEAN : findChildClassCmp(t, reload)) /\ UNCHANGED histVars
    \/ findChildClassUnlink(t) /\ UNCHANGED histVars
    \/ findChildClassUnlinkStore(t) /\ UNCHANGED histVars
    \/ findChildClassMove(t) /\ UNCHANGED histVars
    \/ findChildClassRelink(t) /\ UNCHANGED histVars

SpecRelocChild == InitCounted /\ [][NextRelocChild]_vars

\* C29: findChildClass(clsCounter, p) returns the node of the child list
\* whose record is the one findClass(p) gives, and NULL when findClass(p)
\* gives none or the list has no node of it, also after records were
\* relocated with updateClass.
C29_FindChildFollowsRelocation ==
  JustReturned(1, "findChildClass") /\ hist # <<>> =>
    LET R == TClassContainer_findClass(classMap, hist[1].klassOop)
        nodes == {k \in Range(Children(1)) : childCounter[k].objData = R}
    IN IF R = NULL \/ nodes = {}
       THEN ret[1].result = NULL
       ELSE ret[1].result \in nodes

====
